---------------------------- MODULE Spec2Model ----------------------------
(***************************************************************************)
(* Model of the PhysicsEngine repository: RigidBody, the uniform-grid      *)
(* broad phase, the narrow phase and contact resolvers, PhysicsWorld and   *)
(* the fixed-timestep Engine around it.                                    *)
(*                                                                         *)
(* A C++ float is modelled as an extended rational <<n, d>> in lowest      *)
(* terms with d >= 0: d > 0 is the finite value n/d, <<1,0>> and <<-1,0>>  *)
(* are +inf and -inf, <<0,0>> is NaN.  The arithmetic below follows IEEE   *)
(* 754 on these values (x/0, 0*inf, inf-inf, comparisons with NaN) and is  *)
(* exact on finite values; only Sqrt rounds (to 1/SqrtPrec) when its       *)
(* argument is not a perfect square.  Signed zero is not modelled.         *)
(***************************************************************************)
EXTENDS Integers, Sequences, FiniteSets, TLC

(***************************************************************************)
(* Bounds of the model.                                                    *)
(***************************************************************************)
\* most bodies alive at once
MaxBodies == 2
\* most PhysicsWorld::Step calls in one behaviour
MaxSteps == 2
\* most constraints created in one behaviour
MaxConstraints == 1
\* most ApplyForce / ApplyTorque / SetMass calls in one behaviour
MaxPokes == 1
\* settings, step-size and constraint set-up calls of the host in one run
MaxSetups == 1

\* host calls of RigidBody::Integrate in a behaviour
MaxIntegrations == 1
\* denominator the square root of a non-square is rounded to
SqrtPrec == 8

(***************************************************************************)
(* float arithmetic                                                        *)
(***************************************************************************)
RECURSIVE GCD(_, _)
GCD(a, b) == IF b = 0 THEN a ELSE GCD(b, a % b)

AbsI(n) == IF n < 0 THEN -n ELSE n

SgnI(n) == IF n < 0 THEN -1 ELSE IF n > 0 THEN 1 ELSE 0

\* the float n/d: lowest terms, positive denominator; d = 0 gives inf or NaN
Norm(n, d) ==
    IF d = 0 THEN <<SgnI(n), 0>>
    ELSE LET g == GCD(AbsI(n), AbsI(d))
             s == SgnI(d)
         IN  <<s * (n \div g), s * (d \div g)>>

F(n) == <<n, 1>>

Zero == <<0, 1>>
One == <<1, 1>>
NaN == <<0, 0>>
PosInf == <<1, 0>>

IsNaN(a) == a = NaN
IsFinite(a) == a[2] > 0

LCM(a, b) == (a \div GCD(a, b)) * b

RNeg(a) == <<-a[1], a[2]>>

\* float operator+
RAdd(a, b) ==
    IF IsNaN(a) \/ IsNaN(b) THEN NaN
    ELSE IF a[2] = 0 /\ b[2] = 0 THEN (IF a = b THEN a ELSE NaN)
    ELSE IF a[2] = 0 THEN a
    ELSE IF b[2] = 0 THEN b
    ELSE LET l == LCM(a[2], b[2])
         IN  Norm(a[1] * (l \div a[2]) + b[1] * (l \div b[2]), l)

\* float operator-
RSub(a, b) == RAdd(a, RNeg(b))

\* float operator*
RMul(a, b) ==
    IF a[2] = 0 \/ b[2] = 0 THEN Norm(a[1] * b[1], 0)
    ELSE LET g1 == GCD(AbsI(a[1]), b[2])
             g2 == GCD(AbsI(b[1]), a[2])
         IN  Norm((a[1] \div g1) * (b[1] \div g2), (a[2] \div g2) * (b[2] \div g1))

\* 1.0f / a
RInv(a) ==
    IF a[2] = 0 THEN (IF IsNaN(a) THEN NaN ELSE Zero)
    ELSE IF a[1] = 0 THEN PosInf
    ELSE <<SgnI(a[1]) * a[2], AbsI(a[1])>>

\* float operator/
RDiv(a, b) == RMul(a, RInv(b))

\* float operator<
RLt(a, b) ==
    IF IsNaN(a) \/ IsNaN(b) THEN FALSE
    ELSE IF a[2] = 0 /\ b[2] = 0 THEN a[1] < b[1]
    ELSE IF a[2] = 0 THEN a[1] < 0
    ELSE IF b[2] = 0 THEN b[1] > 0
    ELSE LET l == LCM(a[2], b[2])
         IN  a[1] * (l \div a[2]) < b[1] * (l \div b[2])

\* float operator>
RGt(a, b) == RLt(b, a)

\* float operator==
REq(a, b) == ~IsNaN(a) /\ ~IsNaN(b) /\ a = b

\* float operator<=
RLe(a, b) == RLt(a, b) \/ REq(a, b)

\* float operator>=
RGe(a, b) == RLe(b, a)

\* std::min(a, b) is (b < a) ? b : a
RMin(a, b) == IF RLt(b, a) THEN b ELSE a

\* std::max(a, b) is (a < b) ? b : a
RMax(a, b) == IF RLt(a, b) THEN b ELSE a

\* std::abs / std::fabs
RAbs(a) == <<AbsI(a[1]), a[2]>>

\* std::floor of a finite float, as an integer
FloorI(a) == a[1] \div a[2]

\* largest r in lo..hi with r*r <= n
RECURSIVE ISqrtIn(_, _, _)
ISqrtIn(n, lo, hi) ==
    IF lo >= hi THEN lo
    ELSE LET mid == (lo + hi + 1) \div 2
         IN  IF mid * mid <= n THEN ISqrtIn(n, mid, hi) ELSE ISqrtIn(n, lo, mid - 1)

ISqrt(n) == ISqrtIn(n, 0, IF n < 46340 THEN n ELSE 46340)

\* std::sqrt: exact on perfect squares, otherwise rounded down to 1/SqrtPrec
RSqrt(a) ==
    IF IsNaN(a) THEN NaN
    ELSE IF a[2] = 0 THEN (IF a[1] > 0 THEN PosInf ELSE NaN)
    ELSE IF a[1] < 0 THEN NaN
    ELSE LET rn == ISqrt(a[1])
             rd == ISqrt(a[2])
         IN  IF rn * rn = a[1] /\ rd * rd = a[2] THEN <<rn, rd>>
             ELSE Norm(ISqrt((a[1] * SqrtPrec * SqrtPrec) \div a[2]), SqrtPrec)

(***************************************************************************)
(* Vector3, Quaternion                                                     *)
(***************************************************************************)
Vec(x, y, z) == <<F(x), F(y), F(z)>>

ZeroVec == <<Zero, Zero, Zero>>

VAdd(u, v) == <<RAdd(u[1], v[1]), RAdd(u[2], v[2]), RAdd(u[3], v[3])>>

VSub(u, v) == <<RSub(u[1], v[1]), RSub(u[2], v[2]), RSub(u[3], v[3])>>

VScale(v, s) == <<RMul(v[1], s), RMul(v[2], s), RMul(v[3], s)>>

VDivS(v, s) == <<RDiv(v[1], s), RDiv(v[2], s), RDiv(v[3], s)>>

Dot(u, v) == RAdd(RAdd(RMul(u[1], v[1]), RMul(u[2], v[2])), RMul(u[3], v[3]))

Length(v) == RSqrt(Dot(v, v))

VFinite(v) == IsFinite(v[1]) /\ IsFinite(v[2]) /\ IsFinite(v[3])

\* a quaternion is <<w, x, y, z>>
QIdentity == <<One, Zero, Zero, Zero>>

\* Quaternion(const Vector3& v, float scalar)
QFromVec(v, s) == <<s, v[1], v[2], v[3]>>

\* Hamilton product
QMul(p, q) ==
    <<RSub(RSub(RSub(RMul(p[1], q[1]), RMul(p[2], q[2])), RMul(p[3], q[3])), RMul(p[4], q[4])),
      RSub(RAdd(RAdd(RMul(p[1], q[2]), RMul(p[2], q[1])), RMul(p[3], q[4])), RMul(p[4], q[3])),
      RAdd(RAdd(RSub(RMul(p[1], q[3]), RMul(p[2], q[4])), RMul(p[3], q[1])), RMul(p[4], q[2])),
      RAdd(RSub(RAdd(RMul(p[1], q[4]), RMul(p[2], q[3])), RMul(p[3], q[2])), RMul(p[4], q[1]))>>

QScale(q, s) == <<RMul(q[1], s), RMul(q[2], s), RMul(q[3], s), RMul(q[4], s)>>

QAdd(p, q) == <<RAdd(p[1], q[1]), RAdd(p[2], q[2]), RAdd(p[3], q[3]), RAdd(p[4], q[4])>>

\* Quaternion::Normalize from the test of length on
QNormalizeBy(q, length) == IF RGt(length, Zero) THEN QScale(q, RInv(length)) ELSE q

\* Quaternion::Normalize
QNormalize(q) ==
    QNormalizeBy(q, RSqrt(RAdd(RAdd(RAdd(RMul(q[1], q[1]), RMul(q[2], q[2])),
                                    RMul(q[3], q[3])), RMul(q[4], q[4]))))

(***************************************************************************)
(* RigidBody                                                               *)
(***************************************************************************)
\* RigidBody::RigidBody(): static unit sphere at rest at the origin
NewRigidBody ==
    [position |-> ZeroVec, velocity |-> ZeroVec, rotation |-> QIdentity,
     angularVelocity |-> ZeroVec, mass |-> Zero, invMass |-> Zero,
     invInertiaTensor |-> Zero, shape |-> "Sphere", radius |-> One,
     halfExtents |-> <<<<1, 2>>, <<1, 2>>, <<1, 2>>>>,
     forceAccum |-> ZeroVec, torqueAccum |-> ZeroVec,
     restitution |-> <<3, 10>>, friction |-> <<1, 2>>]

\* SetMass without its branch for m <= 0
SetMassUnchecked(b, m) ==
    [b EXCEPT !.mass = m, !.invMass = RDiv(One, m), !.invInertiaTensor = One]

\* RigidBody::SetMass; invInertiaTensor is Matrix3(diag), kept as its diagonal
SetMass(b, m) ==
    IF RLe(m, Zero)
    THEN [b EXCEPT !.mass = m, !.invMass = Zero, !.invInertiaTensor = Zero]
    ELSE [b EXCEPT !.mass = m, !.invMass = RDiv(One, m), !.invInertiaTensor = One]

\* RigidBody::ApplyForce
ApplyForce(b, force) == [b EXCEPT !.forceAccum = VAdd(b.forceAccum, force)]

\* RigidBody::ApplyTorque
ApplyTorque(b, torque) == [b EXCEPT !.torqueAccum = VAdd(b.torqueAccum, torque)]

\* RigidBody::ClearForces
ClearForces(b) == [b EXCEPT !.forceAccum = ZeroVec, !.torqueAccum = ZeroVec]

\* the position update of Integrate made with the velocity after the step
IntegrateLinearLate(b, dt, acceleration) ==
    [b EXCEPT !.position = VAdd(b.position,
                                VAdd(VScale(VAdd(b.velocity, VScale(acceleration, dt)), dt),
                                     VScale(acceleration, RMul(RMul(<<1, 2>>, dt), dt)))),
              !.velocity = VAdd(b.velocity, VScale(acceleration, dt))]

\* RigidBody::Integrate, the position and the velocity update
IntegrateLinear(b, dt, acceleration) ==
    [b EXCEPT !.position = VAdd(b.position,
                                VAdd(VScale(b.velocity, dt),
                                     VScale(acceleration, RMul(RMul(<<1, 2>>, dt), dt)))),
              !.velocity = VAdd(b.velocity, VScale(acceleration, dt))]

\* RigidBody::Integrate, the angular velocity update
IntegrateAngularVelocity(b, dt) ==
    [b EXCEPT !.angularVelocity =
        VAdd(b.angularVelocity, VScale(VScale(b.torqueAccum, b.invInertiaTensor), dt))]

\* RigidBody::Integrate, the rotation update from the new angular velocity
IntegrateRotation(b, dt) ==
    [b EXCEPT !.rotation =
        QNormalize(QAdd(b.rotation,
                        QScale(QMul(QFromVec(VScale(b.angularVelocity, dt), Zero),
                                    b.rotation),
                               <<1, 2>>)))]

\* RigidBody::Integrate
Integrate(b, dt) ==
    IF REq(b.invMass, Zero) THEN b
    ELSE ClearForces(
             IntegrateRotation(
                 IntegrateAngularVelocity(
                     IntegrateLinear(b, dt, VScale(b.forceAccum, b.invMass)), dt), dt))

(***************************************************************************)
(* Narrow phase and contact resolution (namespace Physics, Collision.cpp)  *)
(***************************************************************************)
\* Collision::SphereVsSphere inside the test distSq < minDistSq
SphereContact(diff, minDist, dist) ==
    <<RSub(minDist, dist), VScale(diff, RDiv(One, dist))>>

\* Collision::SphereVsSphere from the test distSq < minDistSq on
SphereOverlap(diff, minDist, distSq) ==
    IF RLt(distSq, RMul(minDist, minDist))
    THEN SphereContact(diff, minDist, RSqrt(distSq))
    ELSE <<F(-1), ZeroVec>>

\* Collision::SphereVsSphere from the computation of distSq on
SphereDistance(diff, minDist) == SphereOverlap(diff, minDist, Dot(diff, diff))

\* Collision::SphereVsSphere: <<penetration, normal>>; the normal is left
\* as the caller's default-constructed Vector3 when there is no overlap
SphereVsSphere(a, b) ==
    SphereDistance(VSub(b.position, a.position), RAdd(a.radius, b.radius))

\* the impulse scalar j of the resolvers of Collision.cpp
ImpulseMagnitude(a, b, normalVel, restitution, frictionCoeff) ==
    RMul(RDiv(RMul(RNeg(RAdd(One, restitution)), normalVel), RAdd(a.invMass, b.invMass)),
         RDiv(One, RAdd(One, frictionCoeff)))

\* an impulse that only b receives
ApplyImpulseOneSided(a, b, impulse) ==
    <<a, [b EXCEPT !.velocity = VAdd(b.velocity, VScale(impulse, b.invMass))]>>

\* "Apply impulse": the velocities of a and b after it
ApplyImpulse(a, b, impulse) ==
    <<[a EXCEPT !.velocity = VSub(a.velocity, VScale(impulse, a.invMass))],
      [b EXCEPT !.velocity = VAdd(b.velocity, VScale(impulse, b.invMass))]>>

\* the correction vector of "Move objects apart": percent 0.2, slop 0.01
Correction(a, b, normal, penetration) ==
    VScale(normal,
           RDiv(RMul(RMax(RSub(penetration, <<1, 100>>), Zero), <<1, 5>>),
                RAdd(a.invMass, b.invMass)))

\* "Move objects apart": the positions of the pair ab after it
MoveApart(ab, correction) ==
    <<[ab[1] EXCEPT !.position = VSub(ab[1].position, VScale(correction, ab[1].invMass))],
      [ab[2] EXCEPT !.position = VAdd(ab[2].position, VScale(correction, ab[2].invMass))]>>

\* a resolver that applies its impulse whatever the sign of normalVel
ResolveUntested(a, b, normal, penetration, restitution, frictionCoeff, normalVel) ==
    MoveApart(
        ApplyImpulse(a, b,
            VScale(normal,
                   ImpulseMagnitude(a, b, normalVel, restitution, frictionCoeff))),
        Correction(a, b, normal, penetration))

\* a resolver of Collision.cpp from the test of normalVel on
ResolveFrom(a, b, normal, penetration, restitution, frictionCoeff, normalVel) ==
    IF RGt(normalVel, Zero) THEN <<a, b>>
    ELSE MoveApart(
             ApplyImpulse(a, b,
                 VScale(normal,
                        ImpulseMagnitude(a, b, normalVel, restitution, frictionCoeff))),
             Correction(a, b, normal, penetration))

\* Collision::ResolveSphereSphere: the two bodies after the call
ResolveSphereSphere(a, b, normal, penetration, restitution, frictionCoeff) ==
    ResolveFrom(a, b, normal, penetration, restitution, frictionCoeff,
                Dot(VSub(b.velocity, a.velocity), normal))

\* Collision::ResolveAABBCollision: the same statements as ResolveSphereSphere
ResolveAABBCollision(a, b, normal, penetration, restitution, frictionCoeff) ==
    ResolveFrom(a, b, normal, penetration, restitution, frictionCoeff,
                Dot(VSub(b.velocity, a.velocity), normal))

\* ComputeAABB
ComputeAABB(position, halfExtents) ==
    [min |-> VSub(position, halfExtents), max |-> VAdd(position, halfExtents)]

\* ComputeAABBCollision from the overlap test on; ab[k] is a.max - b.min
\* and ba[k] is b.max - a.min on axis k
AABBContact(ab, ba, overlap) ==
    IF RLe(overlap[1], Zero) \/ RLe(overlap[2], Zero) \/ RLe(overlap[3], Zero)
    THEN <<FALSE, Zero, ZeroVec>>
    ELSE IF RLt(overlap[1], overlap[2]) /\ RLt(overlap[1], overlap[3])
    THEN <<TRUE, overlap[1], <<IF RLt(ab[1], ba[1]) THEN One ELSE F(-1), Zero, Zero>>>>
    ELSE IF RLt(overlap[2], overlap[1]) /\ RLt(overlap[2], overlap[3])
    THEN <<TRUE, overlap[2], <<Zero, IF RLt(ab[2], ba[2]) THEN One ELSE F(-1), Zero>>>>
    ELSE <<TRUE, overlap[3], <<Zero, Zero, IF RLt(ab[3], ba[3]) THEN One ELSE F(-1)>>>>

\* ComputeAABBCollision from the three std::min on
AABBOverlaps(ab, ba) ==
    AABBContact(ab, ba, [k \in 1..3 |-> RMin(ab[k], ba[k])])

\* ComputeAABBCollision: <<collides, penetration, normal>>; penetration and
\* normal are uninitialised in the caller when it returns false
ComputeAABBCollision(a, b) == AABBOverlaps(VSub(a.max, b.min), VSub(b.max, a.min))

\* Vector3::Cross
Cross(u, v) ==
    <<RSub(RMul(u[2], v[3]), RMul(u[3], v[2])),
      RSub(RMul(u[3], v[1]), RMul(u[1], v[3])),
      RSub(RMul(u[1], v[2]), RMul(u[2], v[1]))>>

\* Matrix3::operator*(const Vector3&); a Matrix3 is the tuple of its rows
MVec(m, v) == <<Dot(m[1], v), Dot(m[2], v), Dot(m[3], v)>>

\* Matrix3::Transpose
Transpose(m) == [i \in 1..3 |-> [j \in 1..3 |-> m[j][i]]]

\* Matrix3::operator*(const Matrix3&)
MMul(m, other) == [i \in 1..3 |-> [j \in 1..3 |-> Dot(m[i], Transpose(other)[j])]]

\* Quaternion::ToMatrix; a quaternion is <<w, x, y, z>>
ToMatrix(q) ==
    <<<<RSub(RSub(One, RMul(F(2), RMul(q[3], q[3]))), RMul(F(2), RMul(q[4], q[4]))),
        RSub(RMul(F(2), RMul(q[2], q[3])), RMul(F(2), RMul(q[1], q[4]))),
        RAdd(RMul(F(2), RMul(q[2], q[4])), RMul(F(2), RMul(q[1], q[3])))>>,
      <<RAdd(RMul(F(2), RMul(q[2], q[3])), RMul(F(2), RMul(q[1], q[4]))),
        RSub(RSub(One, RMul(F(2), RMul(q[2], q[2]))), RMul(F(2), RMul(q[4], q[4]))),
        RSub(RMul(F(2), RMul(q[3], q[4])), RMul(F(2), RMul(q[1], q[2])))>>,
      <<RSub(RMul(F(2), RMul(q[2], q[4])), RMul(F(2), RMul(q[1], q[3]))),
        RAdd(RMul(F(2), RMul(q[3], q[4])), RMul(F(2), RMul(q[1], q[2]))),
        RSub(RSub(One, RMul(F(2), RMul(q[2], q[2]))), RMul(F(2), RMul(q[3], q[3])))>>>>

\* the unit vector of axis i
UnitAxis(i) == [k \in 1..3 |-> IF k = i THEN One ELSE Zero]

\* sum of he[k] * |axis[k]| over the three axes
Projection(he, axis) ==
    RAdd(RAdd(RMul(he[1], RAbs(axis[1])), RMul(he[2], RAbs(axis[2]))),
         RMul(he[3], RAbs(axis[3])))

\* the struct OBB that PhysicsWorld::Step builds from a body
BodyOBB(b) ==
    [position |-> b.position, halfExtents |-> b.halfExtents, rotation |-> ToMatrix(b.rotation)]

\* one separating-axis test: the overlap on the axis, the normal it would
\* give, and whether the axis is skipped as degenerate
AxisTest(overlap, normal, skipped) ==
    [overlap |-> overlap, normal |-> normal, skipped |-> skipped]

\* the loops over the axis tests from test k on: <<collides, minOverlap,
\* minNormal>>, with the early return on a negative overlap
RECURSIVE TestAxes(_, _, _, _)
TestAxes(tests, k, minOverlap, minNormal) ==
    IF k > Len(tests) THEN <<TRUE, minOverlap, minNormal>>
    ELSE IF tests[k].skipped THEN TestAxes(tests, k + 1, minOverlap, minNormal)
    ELSE IF RLt(tests[k].overlap, Zero) THEN <<FALSE, minOverlap, minNormal>>
    ELSE IF RLt(tests[k].overlap, minOverlap)
    THEN TestAxes(tests, k + 1, tests[k].overlap, tests[k].normal)
    ELSE TestAxes(tests, k + 1, minOverlap, minNormal)

\* the test of a cross-product axis, already of length "length"
CrossAxisTest(heA, heB, t, axis, length) ==
    IF RLt(length, <<1, 1000000>>) THEN AxisTest(Zero, axis, TRUE)
    ELSE AxisTest(RSub(RAdd(Projection(heA, VScale(axis, RDiv(One, length))),
                            Projection(heB, VScale(axis, RDiv(One, length)))),
                       RAbs(Dot(t, VScale(axis, RDiv(One, length))))),
                  VScale(axis, RDiv(One, length)), FALSE)

\* the 3 + 3 + 6 axis tests of ComputeOBBCollision and of
\* ComputeOBBAABBCollision, in the order of their loops; R is the matrix the
\* second and third loop read, t the offset in the first box's frame
AxisTests(heA, heB, R, t) ==
    [i \in 1..3 |->
        AxisTest(RSub(RAdd(heA[i], Projection(heB, Transpose(R)[i])), RAbs(t[i])),
                 UnitAxis(i), FALSE)]
    \o [i \in 1..3 |->
        AxisTest(RSub(RAdd(heB[i], Projection(heA, R[i])), RAbs(Dot(t, Transpose(R)[i]))),
                 Transpose(R)[i], FALSE)]
    \o [n \in 1..6 |->
        CrossAxisTest(heA, heB, t,
                      Cross(UnitAxis(((n - 1) \div 2) + 1),
                            Transpose(R)[((n - 1) % 2) + 1
                                         + (IF ((n - 1) % 2) + 1 >= ((n - 1) \div 2) + 1
                                            THEN 1 ELSE 0)]),
                      Length(Cross(UnitAxis(((n - 1) \div 2) + 1),
                                   Transpose(R)[((n - 1) % 2) + 1
                                                + (IF ((n - 1) % 2) + 1 >= ((n - 1) \div 2) + 1
                                                   THEN 1 ELSE 0)])))]

\* the end of both functions: <<collides, penetration, normal>> with the
\* normal turned by the rotation of the first box
SeparatingAxes(rotation, r) == <<r[1], r[2], MVec(rotation, r[3])>>

\* ComputeOBBCollision (Collision.cpp): <<collides, penetration, normal>>;
\* PosInf stands for the largest float minOverlap starts from
ComputeOBBCollision(a, b) ==
    SeparatingAxes(a.rotation,
        TestAxes(AxisTests(a.halfExtents, b.halfExtents,
                           MMul(a.rotation, Transpose(b.rotation)),
                           MVec(Transpose(a.rotation), VSub(b.position, a.position))),
                 1, PosInf, ZeroVec))

\* ComputeOBBAABBCollision: <<collides, penetration, normal>>
ComputeOBBAABBCollision(obb, aabb) ==
    SeparatingAxes(obb.rotation,
        TestAxes(AxisTests(obb.halfExtents,
                           VScale(VSub(aabb.max, aabb.min), <<1, 2>>),
                           obb.rotation,
                           MVec(Transpose(obb.rotation),
                                VSub(VScale(VAdd(aabb.min, aabb.max), <<1, 2>>),
                                     obb.position))),
                 1, PosInf, ZeroVec))

\* AABBvsAABB of the first version (AABB.cpp)
AABBvsAABB(a, b) ==
    ~(\E k \in 1..3 : RLt(a.max[k], b.min[k]) \/ RGt(a.min[k], b.max[k]))

\* ComputeAABBCollision of the first version from "if (overlapZ <
\* penetration)" on; pn is <<penetration, normal>> so far
AABB_Smallest(a, b, overlap, pn) ==
    IF RLt(overlap[3], pn[1]) THEN <<overlap[3], UnitAxis(3)>> ELSE pn

\* ComputeAABBCollision of the first version from the flip of the normal on
AABB_Oriented(a, b, pn) ==
    <<TRUE, pn[1],
      IF RLt(Dot(VSub(VScale(VAdd(b.min, b.max), <<1, 2>>),
                      VScale(VAdd(a.min, a.max), <<1, 2>>)), pn[2]), Zero)
      THEN VScale(pn[2], F(-1)) ELSE pn[2]>>

\* ComputeAABBCollision of the first version from the three std::min on
AABB_Overlapping(a, b, overlap) ==
    AABB_Oriented(a, b,
        AABB_Smallest(a, b, overlap,
            IF RLt(overlap[2], overlap[1]) THEN <<overlap[2], UnitAxis(2)>>
            ELSE <<overlap[1], UnitAxis(1)>>))

\* ComputeAABBCollision of the first version (AABB.cpp):
\* <<collides, penetration, normal>>
AABB_ComputeAABBCollision(a, b) ==
    IF ~AABBvsAABB(a, b) THEN <<FALSE, Zero, ZeroVec>>
    ELSE AABB_Overlapping(a, b,
             [k \in 1..3 |-> RMin(RSub(a.max[k], b.min[k]), RSub(b.max[k], a.min[k]))])

(***************************************************************************)
(* UniformGridBroadPhase                                                   *)
(***************************************************************************)
Range(s) == {s[i] : i \in DOMAIN s}

RECURSIVE Flatten(_)
Flatten(ss) == IF ss = <<>> THEN <<>> ELSE Head(ss) \o Flatten(Tail(ss))

\* every order in which an unordered_map may list the keys S
Orders(S) ==
    {o \in [1..Cardinality(S) -> S] : \A i, j \in DOMAIN o : i # j => o[i] # o[j]}

\* UniformGridBroadPhase::GetCellCoord.  static_cast<int> of a NaN or an
\* infinity is undefined: ub is the int the build produces for it
GetCellCoord(pos, cellSize, ub) ==
    LET c(k) == LET q == RDiv(pos[k], cellSize)
                IN  IF IsFinite(q) THEN FloorI(q) ELSE ub
    IN  <<c(1), c(2), c(3)>>

\* UniformGridBroadPhase::Update: the grid, cell coordinate -> bodies in
\* insertion order (h is the heap of bodies, bodies the list of pointers)
Update(h, bodies, cellSize, ub) ==
    LET coord(i) == GetCellCoord(h[i].position, cellSize, ub)
        cells == {coord(bodies[k]) : k \in DOMAIN bodies}
    IN  [c \in cells |-> SelectSeq(bodies, LAMBDA i : coord(i) = c)]

\* AreNeighborCells that accepts only a cell itself
AreSameCell(a, b) == a = b

\* AreNeighborCells
AreNeighborCells(a, b) ==
    /\ AbsI(a[1] - b[1]) <= 1
    /\ AbsI(a[2] - b[2]) <= 1
    /\ AbsI(a[3] - b[3]) <= 1

\* the pairs {bs[j], bs[k]}, j < k, in the order of the two nested loops
IntraPairs(bs) ==
    Flatten([j \in 1..Len(bs) |-> [k \in 1..(Len(bs) - j) |-> <<bs[j], bs[j + k]>>]])

\* the pairs of as x bs in the order of the two nested loops
CrossPairs(as, bs) ==
    Flatten([j \in 1..Len(as) |-> [k \in 1..Len(bs) |-> <<as[j], bs[k]>>]])

\* UniformGridBroadPhase::GetPotentialPairs (occupied-cell version);
\* occupiedCells is the order in which the map iterates its cells
GetPotentialPairs(grid, occupiedCells) ==
    LET n == Len(occupiedCells)
        withOthers(i) ==
            Flatten([d \in 1..(n - i) |->
                IF AreNeighborCells(occupiedCells[i], occupiedCells[i + d])
                THEN CrossPairs(grid[occupiedCells[i]], grid[occupiedCells[i + d]])
                ELSE <<>>])
    IN  Flatten([i \in 1..n |-> IntraPairs(grid[occupiedCells[i]]) \o withOthers(i)])

\* UniformGridBroadPhase::GetNeighborCoords: the 27 cells around coord, in
\* the order of the three nested loops
GetNeighborCoords(coord) ==
    [n \in 1..27 |-> <<coord[1] + ((n - 1) \div 9) - 1,
                       coord[2] + (((n - 1) \div 3) % 3) - 1,
                       coord[3] + ((n - 1) % 3) - 1>>]

\* UniformGridBroadPhase::GetPotentialPairs (27-cell stencil version);
\* cells is the order in which the map iterates its cells
GetPotentialPairsStencil(grid, cells) ==
    LET withNeighbors(c) ==
            Flatten([n \in 1..27 |->
                IF GetNeighborCoords(c)[n] # c /\ GetNeighborCoords(c)[n] \in DOMAIN grid
                THEN CrossPairs(grid[c], grid[GetNeighborCoords(c)[n]])
                ELSE <<>>])
    IN  Flatten([i \in 1..Len(cells) |->
                    IntraPairs(grid[cells[i]]) \o withNeighbors(cells[i])])

(***************************************************************************)
(* PhysicsWorld                                                            *)
(***************************************************************************)
\* PhysicsWorld::ApplyGlobalForce
ApplyGlobalForce(h, bodies, force) ==
    [i \in DOMAIN h |->
        IF i \in Range(bodies) /\ RGt(h[i].invMass, Zero)
        THEN ApplyForce(h[i], VScale(force, h[i].mass))
        ELSE h[i]]

\* the loop of PhysicsWorld::Step that integrates every body
IntegrateAll(h, bodies, dt) ==
    [i \in DOMAIN h |-> IF i \in Range(bodies) THEN Integrate(h[i], dt) ELSE h[i]]

\* one resolver call, as the contact log keeps it
Contact(a, b, normal, penetration, restitution, friction, h, after) ==
    [a |-> a, b |-> b, normal |-> normal, penetration |-> penetration,
     restitution |-> restitution, friction |-> friction,
     preA |-> h[a], preB |-> h[b], postA |-> after[1], postB |-> after[2]]

\* the heap and the log entry once a resolver has returned the pair "after"
Resolved(h, a, b, normal, penetration, restitution, friction, after) ==
    <<[h EXCEPT ![a] = after[1], ![b] = after[2]],
      <<Contact(a, b, normal, penetration, restitution, friction, h, after)>>>>

\* the Sphere/Sphere branch of PhysicsWorld::Step, r the result of SphereVsSphere
SphereBranch(h, a, b, restitution, friction, r) ==
    IF RGt(r[1], Zero)
    THEN Resolved(h, a, b, r[2], r[1], restitution, friction,
                  ResolveSphereSphere(h[a], h[b], r[2], r[1], restitution, friction))
    ELSE <<h, <<>>>>

\* the AABB/AABB branch of PhysicsWorld::Step, r the result of ComputeAABBCollision
AABBBranch(h, a, b, restitution, friction, r) ==
    IF r[1]
    THEN Resolved(h, a, b, r[3], r[2], restitution, friction,
                  ResolveAABBCollision(h[a], h[b], r[3], r[2], restitution, friction))
    ELSE <<h, <<>>>>

\* Collision::ResolveOBBCollision and Collision::ResolveOBBAABBCollision
ResolveOBBCollision(a, b, normal, penetration, restitution, frictionCoeff) ==
    ResolveFrom(a, b, normal, penetration, restitution, frictionCoeff,
                Dot(VSub(b.velocity, a.velocity), normal))

ResolveOBBAABBCollision(a, b, normal, penetration, restitution, frictionCoeff) ==
    ResolveFrom(a, b, normal, penetration, restitution, frictionCoeff,
                Dot(VSub(b.velocity, a.velocity), normal))

\* the OBB/OBB branch of PhysicsWorld::Step, r the result of ComputeOBBCollision
OBBBranch(h, a, b, restitution, friction, r) ==
    IF r[1]
    THEN Resolved(h, a, b, r[3], r[2], restitution, friction,
                  ResolveOBBCollision(h[a], h[b], r[3], r[2], restitution, friction))
    ELSE <<h, <<>>>>

\* the mixed branch of PhysicsWorld::Step, r the result of
\* ComputeOBBAABBCollision; the resolver gets the pair in the order (a, b)
\* whichever of the two is the OBB
OBBAABBBranch(h, a, b, restitution, friction, r) ==
    IF r[1]
    THEN Resolved(h, a, b, r[3], r[2], restitution, friction,
                  ResolveOBBAABBCollision(h[a], h[b], r[3], r[2], restitution, friction))
    ELSE <<h, <<>>>>

\* the body of the pair loop of PhysicsWorld::Step for the pair (a, b):
\* <<heap after, resolver calls made>>
ResolvePair(h, a, b, restitution, friction) ==
    IF REq(h[a].invMass, Zero) /\ REq(h[b].invMass, Zero) THEN <<h, <<>>>>
    ELSE IF h[a].shape = "Sphere" /\ h[b].shape = "Sphere"
    THEN SphereBranch(h, a, b, restitution, friction, SphereVsSphere(h[a], h[b]))
    ELSE IF h[a].shape = "AABB" /\ h[b].shape = "AABB"
    THEN AABBBranch(h, a, b, restitution, friction,
                    ComputeAABBCollision(ComputeAABB(h[a].position, h[a].halfExtents),
                                         ComputeAABB(h[b].position, h[b].halfExtents)))
    ELSE IF h[a].shape = "OBB" /\ h[b].shape = "OBB"
    THEN OBBBranch(h, a, b, restitution, friction,
                   ComputeOBBCollision(BodyOBB(h[a]), BodyOBB(h[b])))
    ELSE IF h[a].shape = "OBB" /\ h[b].shape = "AABB"
    THEN OBBAABBBranch(h, a, b, restitution, friction,
                       ComputeOBBAABBCollision(BodyOBB(h[a]),
                           ComputeAABB(h[b].position, h[b].halfExtents)))
    ELSE IF h[a].shape = "AABB" /\ h[b].shape = "OBB"
    THEN OBBAABBBranch(h, a, b, restitution, friction,
                       ComputeOBBAABBCollision(BodyOBB(h[b]),
                           ComputeAABB(h[a].position, h[a].halfExtents)))
    ELSE <<h, <<>>>>

\* the pair loop of PhysicsWorld::Step from pair k on; r is what the body
\* of the loop made of pair k
RECURSIVE ResolvePairs(_, _, _, _, _, _)
RECURSIVE ResolveNext(_, _, _, _, _, _)
ResolveNext(r, pairs, k, restitution, friction, log) ==
    ResolvePairs(r[1], pairs, k + 1, restitution, friction, log \o r[2])

ResolvePairs(h, pairs, k, restitution, friction, log) ==
    IF k > Len(pairs) THEN <<h, log>>
    ELSE ResolveNext(ResolvePair(h, pairs[k][1], pairs[k][2], restitution, friction),
                     pairs, k, restitution, friction, log)

\* the gravity PhysicsWorld::Step applies
StepGravity == <<Zero, <<-49, 5>>, Zero>>

\* the cell size PhysicsWorld::Step gives the grid
StepCellSize == F(2)

\* the restitution and friction PhysicsWorld::Step gives the resolvers
StepRestitution == <<1, 2>>
StepFriction == <<2, 5>>

\* the bodies after gravity and integration in PhysicsWorld::Step
StepIntegrated(h, bodies, dt) ==
    IntegrateAll(ApplyGlobalForce(h, bodies, StepGravity), bodies, dt)

\* the grid PhysicsWorld::Step builds from the integrated bodies
StepGrid(h, bodies, dt, ub) == Update(StepIntegrated(h, bodies, dt), bodies, StepCellSize, ub)

\* PhysicsWorld::Step from the pair loop on
StepResolve(h1, potentialPairs) ==
    Append(ResolvePairs(h1, potentialPairs, 1, StepRestitution, StepFriction, <<>>),
           potentialPairs)

\* PhysicsWorld::Step from the broad phase on
StepCollide(h1, bodies, occupiedCells, ub) ==
    StepResolve(h1, GetPotentialPairs(Update(h1, bodies, StepCellSize, ub), occupiedCells))

\* PhysicsWorld::Step: <<heap after, resolver calls made, candidate pairs>>;
\* occupiedCells is the order in which the grid lists its cells
Step(h, bodies, dt, occupiedCells, ub) ==
    StepCollide(StepIntegrated(h, bodies, dt), bodies, occupiedCells, ub)

\* a Step that runs PreSolve, Solve and PostSolve of every constraint
StepSolvesConstraints(constraints) ==
    Flatten([k \in 1..Len(constraints) |->
        <<<<"PreSolve", constraints[k]>>, <<"Solve", constraints[k]>>,
          <<"PostSolve", constraints[k]>>>>])

\* PhysicsWorld::Step: the callbacks it makes on the constraints of the
\* world, in order.  Step never touches the list 'constraints'
StepConstraintCalls(constraints) == <<>>

(***************************************************************************)
(* Contact resolution of the global namespace Collision (first version)    *)
(***************************************************************************)
\* "1) Positional correction to remove overlap"
Collision_Correct(a, b, normal, penetration, invMassSum) ==
    IF RGt(invMassSum, Zero)
    THEN <<[a EXCEPT !.position =
               VSub(a.position,
                    VScale(normal, RMul(RMul(RDiv(penetration, invMassSum), <<1, 2>>),
                                        a.invMass)))],
           [b EXCEPT !.position =
               VAdd(b.position,
                    VScale(normal, RMul(RMul(RDiv(penetration, invMassSum), <<1, 2>>),
                                        b.invMass)))]>>
    ELSE <<a, b>>

\* the clamp of jt to the Coulomb limit
Collision_Clamp(jt, maxFriction) ==
    IF RGt(RAbs(jt), maxFriction)
    THEN (IF RGt(jt, Zero) THEN maxFriction ELSE RNeg(maxFriction))
    ELSE jt

\* "4) Friction impulse" from the test of tLen on
Collision_FrictionImpulse(ab, frictionCoeff, invMassSum, j, tangentVel, tLen) ==
    IF RGt(tLen, <<1, 1000000>>)
    THEN ApplyImpulse(ab[1], ab[2],
             VScale(VDivS(tangentVel, tLen),
                    Collision_Clamp(RDiv(RNeg(tLen), invMassSum),
                                    RMul(frictionCoeff, RAbs(j)))))
    ELSE ab

\* "4) Friction impulse" from the tangential velocity on
Collision_Tangent(ab, frictionCoeff, invMassSum, j, tangentVel) ==
    Collision_FrictionImpulse(ab, frictionCoeff, invMassSum, j, tangentVel,
                              Length(tangentVel))

\* "4) Friction impulse" from the recomputed relative velocity rv on
Collision_Friction(ab, normal, frictionCoeff, invMassSum, j, rv) ==
    Collision_Tangent(ab, frictionCoeff, invMassSum, j,
                      VSub(rv, VScale(normal, Dot(rv, normal))))

\* the resolver once the normal impulse has been applied
Collision_Impulsed(ab, normal, frictionCoeff, invMassSum, j) ==
    Collision_Friction(ab, normal, frictionCoeff, invMassSum, j,
                       VSub(ab[2].velocity, ab[1].velocity))

\* "3) Normal impulse" with the impulse scalar j, and what follows it
Collision_NormalImpulse(ab, normal, frictionCoeff, invMassSum, j) ==
    Collision_Impulsed(ApplyImpulse(ab[1], ab[2], VScale(normal, j)),
                       normal, frictionCoeff, invMassSum, j)

\* the resolver from the test of velAlongNormal on
Collision_Separating(ab, normal, restitution, frictionCoeff, invMassSum, velAlongNormal) ==
    IF RGt(velAlongNormal, Zero) THEN ab
    ELSE Collision_NormalImpulse(ab, normal, frictionCoeff, invMassSum,
             RDiv(RMul(RNeg(RAdd(One, restitution)), velAlongNormal), invMassSum))

\* the resolver from "2) Relative velocity" on
Collision_Corrected(ab, normal, restitution, frictionCoeff, invMassSum) ==
    Collision_Separating(ab, normal, restitution, frictionCoeff, invMassSum,
                         Dot(VSub(ab[2].velocity, ab[1].velocity), normal))

\* Collision::ResolveSphereSphere of the first version: positional correction
\* first, then the normal impulse, then a clamped friction impulse
Collision_ResolveSphereSphere(a, b, normal, penetration, restitution, frictionCoeff) ==
    Collision_Corrected(
        Collision_Correct(a, b, normal, penetration, RAdd(a.invMass, b.invMass)),
        normal, restitution, frictionCoeff, RAdd(a.invMass, b.invMass))

\* ResolveAABBCollision of the first version (AABB.cpp): the same steps as
\* the first version of the sphere resolver
AABB_ResolveAABBCollision(a, b, normal, penetration, restitution, frictionCoeff) ==
    Collision_Corrected(
        Collision_Correct(a, b, normal, penetration, RAdd(a.invMass, b.invMass)),
        normal, restitution, frictionCoeff, RAdd(a.invMass, b.invMass))

\* "if (a.invMass > 0.0f) a.velocity -= ...; if (b.invMass > 0.0f)
\* b.velocity += ..." of the resolver of Obb.cpp
OBB_ApplyImpulse(ab, impulse) ==
    <<IF RGt(ab[1].invMass, Zero)
      THEN [ab[1] EXCEPT !.velocity = VSub(ab[1].velocity, VScale(impulse, ab[1].invMass))]
      ELSE ab[1],
      IF RGt(ab[2].invMass, Zero)
      THEN [ab[2] EXCEPT !.velocity = VAdd(ab[2].velocity, VScale(impulse, ab[2].invMass))]
      ELSE ab[2]>>

\* std::clamp
OBB_Clamp(v, lo, hi) == IF RLt(v, lo) THEN lo ELSE IF RLt(hi, v) THEN hi ELSE v

\* Vector3::Normalize of v, whose length is len
Normalize(v, len) == IF RGt(len, Zero) THEN VDivS(v, len) ELSE v

\* "Step 4: Apply Friction Impulse" along the tangent
OBB_Friction(ab, tangent, relativeVelocity, invMassSum, j, mu) ==
    OBB_ApplyImpulse(ab,
        VScale(tangent,
               OBB_Clamp(RDiv(RNeg(Dot(relativeVelocity, tangent)), invMassSum),
                         RMul(RNeg(j), mu), RMul(j, mu))))

\* the resolver of Obb.cpp from the impulse scalar j on
OBB_Impulse(ab, normal, relativeVelocity, velocityAlongNormal, invMassSum, j) ==
    OBB_Friction(OBB_ApplyImpulse(ab, VScale(normal, j)),
                 Normalize(VSub(relativeVelocity, VScale(normal, velocityAlongNormal)),
                               Length(VSub(relativeVelocity,
                                           VScale(normal, velocityAlongNormal)))),
                 relativeVelocity, invMassSum, j,
                 RSqrt(RMul(ab[1].friction, ab[2].friction)))

\* the resolver of Obb.cpp from "Step 2: Compute Relative Velocity" on
OBB_Resolve(ab, normal, relativeVelocity, velocityAlongNormal) ==
    IF RGt(velocityAlongNormal, Zero) THEN ab
    ELSE OBB_Impulse(ab, normal, relativeVelocity, velocityAlongNormal,
                     RAdd(ab[1].invMass, ab[2].invMass),
                     RDiv(RMul(RNeg(RAdd(One, RMin(ab[1].restitution, ab[2].restitution))),
                               velocityAlongNormal),
                          RAdd(ab[1].invMass, ab[2].invMass)))

\* "Step 1: Position Correction" of the resolver of Obb.cpp
OBB_Correct(a, b, correction) ==
    <<IF RGt(a.invMass, Zero) THEN [a EXCEPT !.position = VAdd(a.position, correction)] ELSE a,
      IF RGt(b.invMass, Zero) THEN [b EXCEPT !.position = VSub(b.position, correction)] ELSE b>>

\* ResolveOBBAABBCollision of Obb.cpp: restitution and friction are read
\* from the bodies, the two parameters are not used
OBB_ResolveOBBAABBCollision(a, b, normal, penetration, restitution, friction) ==
    OBB_Resolve(OBB_Correct(a, b, VScale(VScale(normal, penetration), <<1, 2>>)),
                normal, VSub(b.velocity, a.velocity),
                Dot(VSub(b.velocity, a.velocity), normal))

(***************************************************************************)
(* Constraints.cpp                                                         *)
(***************************************************************************)
\* a two-body constraint of the given kind between the bodies at the
\* addresses bodyA and bodyB; rA, rB and the world axes are written by
\* PreSolve before Solve reads them
NewConstraint(kind, bodyA, bodyB, pivotA, pivotB, axisA, axisB, distance) ==
    [kind |-> kind, bodyA |-> bodyA, bodyB |-> bodyB, pivotA |-> pivotA,
     pivotB |-> pivotB, axisA |-> axisA, axisB |-> axisB, distance |-> distance,
     rA |-> ZeroVec, rB |-> ZeroVec, worldAxisA |-> ZeroVec, worldAxisB |-> ZeroVec]

\* PreSolve of the point-to-point, distance and hinge constraints; the
\* first two have no axes to turn
PreSolve(c, a, b) ==
    [c EXCEPT !.rA = VAdd(a.position, MVec(ToMatrix(a.rotation), c.pivotA)),
              !.rB = VAdd(b.position, MVec(ToMatrix(b.rotation), c.pivotB)),
              !.worldAxisA = IF c.kind = "Hinge" THEN MVec(ToMatrix(a.rotation), c.axisA)
                             ELSE c.worldAxisA,
              !.worldAxisB = IF c.kind = "Hinge" THEN MVec(ToMatrix(b.rotation), c.axisB)
                             ELSE c.worldAxisB]

\* "Apply the impulse" of a positional row
ApplyRow(a, b, jacobian, lambda) ==
    <<IF RGt(a.invMass, Zero)
      THEN [a EXCEPT !.velocity = VAdd(a.velocity, VScale(jacobian, RMul(lambda, a.invMass)))]
      ELSE a,
      IF RGt(b.invMass, Zero)
      THEN [b EXCEPT !.velocity = VSub(b.velocity, VScale(jacobian, RMul(lambda, b.invMass)))]
      ELSE b>>

\* the angular row of HingeConstraint::Solve
ApplyAngularRow(ab, angularJacobian, angularLambda) ==
    <<IF RGt(ab[1].invMass, Zero)
      THEN [ab[1] EXCEPT !.angularVelocity =
               VAdd(ab[1].angularVelocity,
                    VScale(angularJacobian, RMul(angularLambda, ab[1].invInertiaTensor)))]
      ELSE ab[1],
      IF RGt(ab[2].invMass, Zero)
      THEN [ab[2] EXCEPT !.angularVelocity =
               VSub(ab[2].angularVelocity,
                    VScale(angularJacobian, RMul(angularLambda, ab[2].invInertiaTensor)))]
      ELSE ab[2]>>

\* PointToPointConstraint::Solve once error and its length are known:
\* <<bodyA after, bodyB after, the divisors of its divisions>>
PointToPoint_Row(a, b, dt, error, length) ==
    ApplyRow(a, b, Normalize(error, length),
             RDiv(RMul(RNeg(RDiv(One, RAdd(a.invMass, b.invMass))), length), dt))
    \o <<<<RAdd(a.invMass, b.invMass), dt>>>>

\* PointToPointConstraint::Solve
PointToPoint_Solve(c, a, b, dt) ==
    PointToPoint_Row(a, b, dt, VSub(c.rB, c.rA), Length(VSub(c.rB, c.rA)))

\* DistanceConstraint::Solve once currentVector and its length are known
Distance_Row(c, a, b, dt, currentVector, currentDistance) ==
    ApplyRow(a, b, Normalize(currentVector, currentDistance),
             RDiv(RMul(RNeg(RDiv(One, RAdd(a.invMass, b.invMass))),
                       RSub(currentDistance, c.distance)), dt))
    \o <<<<RAdd(a.invMass, b.invMass), dt>>>>

\* DistanceConstraint::Solve
Distance_Solve(c, a, b, dt) ==
    Distance_Row(c, a, b, dt, VSub(c.rB, c.rA), Length(VSub(c.rB, c.rA)))

\* HingeConstraint::Solve from "Solve angular constraint" on; ab are the
\* bodies after the positional row
Hinge_Angular(ab, dt, angularError, length) ==
    ApplyAngularRow(ab, Normalize(angularError, length),
        RDiv(RMul(RNeg(RDiv(One, RAdd(ab[1].invInertiaTensor, ab[2].invInertiaTensor))),
                  length), dt))
    \o <<<<RAdd(ab[1].invMass, ab[2].invMass), dt,
           RAdd(ab[1].invInertiaTensor, ab[2].invInertiaTensor), dt>>>>

\* HingeConstraint::Solve
Hinge_Solve(c, a, b, dt) ==
    Hinge_Angular(PointToPoint_Row(a, b, dt, VSub(c.rB, c.rA), Length(VSub(c.rB, c.rA))),
                  dt, Cross(c.worldAxisA, c.worldAxisB),
                  Length(Cross(c.worldAxisA, c.worldAxisB)))

\* Solve of the constraint c
Solve(c, a, b, dt) ==
    CASE c.kind = "PointToPoint" -> PointToPoint_Solve(c, a, b, dt)
      [] c.kind = "Distance" -> Distance_Solve(c, a, b, dt)
      [] c.kind = "Hinge" -> Hinge_Solve(c, a, b, dt)

(***************************************************************************)
(* Engine                                                                  *)
(***************************************************************************)
\* struct Settings, the fields the simulation reads
DefaultSettings ==
    [fixedTimeStep |-> <<1, 60>>, maxTimeStep |-> <<1, 4>>, maxSubSteps |-> 4,
     gravity |-> <<Zero, <<-981, 100>>, Zero>>]

\* the body Engine::CreateBox leaves behind
CreateBoxBody(position, size, mass) ==
    [NewRigidBody EXCEPT !.position = position,
                         !.halfExtents = VScale(size, <<1, 2>>),
                         !.shape = "AABB",
                         !.mass = mass,
                         !.invMass = IF RGt(mass, Zero) THEN RDiv(One, mass) ELSE Zero]

\* the body Engine::CreateSphere leaves behind
CreateSphereBody(position, radius, mass) ==
    [NewRigidBody EXCEPT !.position = position,
                         !.halfExtents = <<radius, radius, radius>>,
                         !.shape = "Sphere",
                         !.mass = mass,
                         !.invMass = IF RGt(mass, Zero) THEN RDiv(One, mass) ELSE Zero]

\* the body Engine::CreatePlane leaves behind
CreatePlaneBody(normal, distance, mass) ==
    [NewRigidBody EXCEPT !.position = VScale(normal, distance),
                         !.halfExtents = <<F(1000), <<1, 10>>, F(1000)>>,
                         !.shape = "AABB",
                         !.mass = mass,
                         !.invMass = IF RGt(mass, Zero) THEN RDiv(One, mass) ELSE Zero]

\* HingeConstraint::HingeConstraint(pivot, axis, angularVelocity, isRotating)
NewHinge(pivot, axis, angularVelocity, isRotating) ==
    [kind |-> "Hinge", bodyA |-> 0, bodyB |-> 0, pivotA |-> pivot, pivotB |-> pivot,
     axisA |-> axis, axisB |-> axis, targetAngle |-> Zero, currentAngle |-> Zero,
     angularVelocity |-> angularVelocity, isRotating |-> isRotating]

\* WorldWrapper::GetBody for a valid index: the snapshot of the body
GetBody(body) ==
    IF body.shape = "AABB"
    THEN [position |-> body.position, rotation |-> body.rotation, shape |-> body.shape,
          halfExtents |-> body.halfExtents]
    ELSE IF body.shape = "Sphere"
    THEN [position |-> body.position, rotation |-> body.rotation, shape |-> body.shape,
          radius |-> body.radius]
    ELSE [position |-> body.position, rotation |-> body.rotation, shape |-> body.shape]

\* HingeConstraint::SetRotation storing the angle as the current one too
SetRotationNow(c, angle) == [c EXCEPT !.targetAngle = angle, !.currentAngle = angle]

\* HingeConstraint::SetRotation
SetRotation(c, angle) == [c EXCEPT !.targetAngle = angle]

\* the loop of Engine::Update with the test of substeps off by one
UpdateContinuesLate(st, remaining, n) == RGt(remaining, Zero) /\ n <= st.maxSubSteps

\* the loop of Engine::Update without the test of the remaining time
UpdateContinuesAnyTime(st, remaining, n) == n < st.maxSubSteps

\* the condition of the while loop of Engine::Update
UpdateContinues(st, remaining, n) == RGt(remaining, Zero) /\ n < st.maxSubSteps

\* the substeps the loop of Engine::Update runs from (remainingTime, substeps)
RECURSIVE UpdateSubsteps(_, _, _)
UpdateSubsteps(st, remaining, n) ==
    IF UpdateContinues(st, remaining, n)
    THEN 1 + UpdateSubsteps(st, RSub(remaining, RMin(remaining, st.fixedTimeStep)), n + 1)
    ELSE 0

(***************************************************************************)
(* State                                                                   *)
(***************************************************************************)
VARIABLES
    heap,               \* the RigidBody objects allocated so far, by address 1..n
    worldBodies,        \* PhysicsWorld::bodies, a list of addresses
    fixedDeltaTime,     \* PhysicsWorld::fixedDeltaTime
    cons,               \* the Constraint objects allocated so far
    worldConstraints,   \* PhysicsWorld::constraints
    settings,           \* Engine::settings
    managedBodies,      \* Engine::managedBodies
    managedConstraints, \* Engine::managedConstraints
    pc,                 \* "idle", or "update" inside the loop of Engine::Update
    remainingTime,      \* local of Engine::Update
    substeps,           \* local of Engine::Update
    contactLog,         \* the resolver calls of the latest Step or direct call
    solveLog,           \* the constraint callbacks the latest Step invoked
    integratedDt,       \* the dt the latest Step handed to Integrate
    stepsRun,           \* PhysicsWorld::Step calls so far
    pokes,              \* host calls on single bodies so far
    setups,             \* set-up calls of the host so far
    integrations        \* host calls of RigidBody::Integrate so far

vars == <<heap, worldBodies, fixedDeltaTime, cons, worldConstraints, settings,
          managedBodies, managedConstraints, pc, remainingTime, substeps,
          contactLog, solveLog, integratedDt, stepsRun, pokes, setups, integrations>>

worldVars == <<worldBodies, fixedDeltaTime, worldConstraints>>
engineVars == <<settings, managedBodies, managedConstraints>>
updateVars == <<pc, remainingTime, substeps>>
logVars == <<contactLog, solveLog, integratedDt>>

(***************************************************************************)
(* Inputs                                                                  *)
(***************************************************************************)
\* the bodies of the test fixtures: <<position, velocity, mass>>
HostBodies ==
    {<<Vec(-2, 0, 0), Vec(5, 0, 0), F(1)>>,
     <<Vec(2, 0, 0), Vec(-5, 0, 0), F(1)>>,
     <<Vec(2, 0, 0), ZeroVec, F(0)>>,
     <<Vec(2, 0, 0), ZeroVec, F(1)>>}
\* boxes of half extents 1 that overlap along x: <<position, velocity, mass>>
HostBoxes ==
    {<<Vec(3, 0, 0), ZeroVec, F(1)>>,
     <<Vec(2, 0, 0), ZeroVec, F(1)>>}
BoxShapes == {"AABB", "OBB"}
SetMassValues == {F(-1), F(0), F(2)}
Forces == {Vec(10, 0, 0), <<Zero, <<49, 5>>, Zero>>}
Torques == {Vec(0, 0, 5)}
BoxPositions == {<<F(4), <<1, 2>>, Zero>>}
BoxMasses == {F(1), F(-1)}
SphereMasses == {F(1)}
TimeSteps == {F(1)}
IntegrateTimes == {F(1)}
EngineTimeSteps == {F(0), <<1, 30>>}
UpdateTimes == {F(-1), F(0), <<1, 60>>, F(1)}
Gravities == {Vec(0, -1, 0)}
InitSettings ==
    {DefaultSettings,
     [DefaultSettings EXCEPT !.fixedTimeStep = <<1, 30>>, !.maxSubSteps = 2],
     [DefaultSettings EXCEPT !.fixedTimeStep = F(-1), !.maxSubSteps = 1]}
ConstraintIds == {-1, 0, 1}
HingeAngles == {F(1)}
Restitutions == {F(0), F(1)}
Frictions == {F(0), F(1)}
\* what static_cast<int> makes of a NaN or an infinity: 0, or INT_MIN
\* (the x86 "integer indefinite"), which -1000000 stands for
UBCells(h) ==
    IF \A i \in DOMAIN h : VFinite(h[i].position) THEN {0} ELSE {0, -1000000}

(***************************************************************************)
(* Initial state: Engine::Engine() has run Initialize()                    *)
(***************************************************************************)
Init ==
    /\ heap = <<>>
    /\ worldBodies = <<>>
    /\ fixedDeltaTime = <<1, 60>>
    /\ cons = <<>>
    /\ worldConstraints = <<>>
    /\ settings = DefaultSettings
    /\ managedBodies = <<>>
    /\ managedConstraints = <<>>
    /\ pc = "idle"
    /\ remainingTime = Zero
    /\ substeps = 0
    /\ contactLog = <<>>
    /\ solveLog = <<>>
    /\ integratedDt = Zero
    /\ stepsRun = 0
    /\ pokes = 0
    /\ setups = 0
    /\ integrations = 0

(***************************************************************************)
(* Host operations on bodies and on the world                              *)
(***************************************************************************)
\* RigidBody b; b.SetMass(m); b.position = p; b.velocity = v; world.AddBody(&b)
\* as the test fixtures do it, after they have set a whole-second step: at
\* the default step of 1/60 s the squared distances of SphereVsSphere need
\* more than 32 bits
HostAddBody(p, v, m) ==
    /\ pc = "idle"
    /\ stepsRun = 0
    /\ fixedDeltaTime \in TimeSteps
    /\ Len(heap) < MaxBodies
    /\ heap' = Append(heap, [SetMass(NewRigidBody, m) EXCEPT !.position = p, !.velocity = v])
    /\ worldBodies' = Append(worldBodies, Len(heap) + 1)
    /\ UNCHANGED <<fixedDeltaTime, cons, worldConstraints, engineVars, updateVars,
                   logVars, stepsRun, pokes, setups,
                   integrations>>

\* RigidBody b; b.SetMass(m); b.shape = shape; b.halfExtents = (1, 1, 1);
\* b.position = p; b.velocity = v; world.AddBody(&b) as the box fixtures do
\* it: a scene of boxes
HostAddBox(p, v, m, shape) ==
    /\ pc = "idle"
    /\ stepsRun = 0
    /\ fixedDeltaTime \in TimeSteps
    /\ Len(heap) < MaxBodies
    /\ \A i \in DOMAIN heap : heap[i].shape # "Sphere"
    /\ heap' = Append(heap, [SetMass(NewRigidBody, m) EXCEPT !.shape = shape,
                                 !.halfExtents = Vec(1, 1, 1),
                                 !.position = p, !.velocity = v])
    /\ worldBodies' = Append(worldBodies, Len(heap) + 1)
    /\ UNCHANGED <<fixedDeltaTime, cons, worldConstraints, engineVars, updateVars,
                   logVars, stepsRun, pokes, setups,
                   integrations>>

\* body.SetMass(m)
DoSetMass(i, m) ==
    /\ pc = "idle"
    /\ pokes < MaxPokes
    /\ heap' = [heap EXCEPT ![i] = SetMass(heap[i], m)]
    /\ pokes' = pokes + 1
    /\ UNCHANGED <<worldVars, cons, engineVars, updateVars, logVars, stepsRun, setups,
                   integrations>>

\* body.ApplyForce(f)
DoApplyForce(i, f) ==
    /\ pc = "idle"
    /\ pokes < MaxPokes
    /\ heap' = [heap EXCEPT ![i] = ApplyForce(heap[i], f)]
    /\ pokes' = pokes + 1
    /\ UNCHANGED <<worldVars, cons, engineVars, updateVars, logVars, stepsRun, setups,
                   integrations>>

\* body.ApplyTorque(t); the oriented boxes stay unturned, as the axis
\* products of a turned box need more than 32 bits
DoApplyTorque(i, t) ==
    /\ pc = "idle"
    /\ pokes < MaxPokes
    /\ heap[i].shape # "OBB"
    /\ heap' = [heap EXCEPT ![i] = ApplyTorque(heap[i], t)]
    /\ pokes' = pokes + 1
    /\ UNCHANGED <<worldVars, cons, engineVars, updateVars, logVars, stepsRun, setups,
                   integrations>>

\* body.Integrate(dt)
DoIntegrate(i, dt) ==
    /\ pc = "idle"
    /\ integrations < MaxIntegrations
    /\ heap' = [heap EXCEPT ![i] = Integrate(heap[i], dt)]
    /\ integrations' = integrations + 1
    /\ UNCHANGED <<worldVars, cons, engineVars, updateVars, logVars, stepsRun, pokes,
                   setups>>

\* world.fixedDeltaTime = dt
SetFixedDeltaTime(dt) ==
    /\ pc = "idle"
    /\ heap = <<>>
    /\ setups < MaxSetups
    /\ setups' = setups + 1
    /\ fixedDeltaTime' = dt
    /\ UNCHANGED <<heap, worldBodies, cons, worldConstraints, engineVars, updateVars,
                   logVars, stepsRun, pokes,
                   integrations>>

\* the effect of one PhysicsWorld::Step on the bodies and on the logs
WorldStep ==
    \E ub \in UBCells(StepIntegrated(heap, worldBodies, fixedDeltaTime)) :
    \E occupiedCells \in Orders(DOMAIN StepGrid(heap, worldBodies, fixedDeltaTime, ub)) :
    \E r \in {Step(heap, worldBodies, fixedDeltaTime, occupiedCells, ub)} :
        /\ heap' = r[1]
        /\ contactLog' = r[2]
        /\ solveLog' = StepConstraintCalls(worldConstraints)
        /\ integratedDt' = fixedDeltaTime
        /\ stepsRun' = stepsRun + 1

\* world.Step() called by the host
HostStep ==
    /\ pc = "idle"
    /\ stepsRun < MaxSteps
    /\ WorldStep
    /\ UNCHANGED <<worldVars, cons, engineVars, updateVars, pokes, setups,
                   integrations>>

\* Collision::ResolveSphereSphere(a, b, normal, penetration, e, f) called by
\* the host, in either version of the resolver
HostResolve(a, b, normal, penetration, e, f, legacy) ==
    /\ pc = "idle"
    /\ pokes < MaxPokes
    /\ a # b
    /\ stepsRun = 0
    /\ \E after \in {IF legacy
                     THEN Collision_ResolveSphereSphere(heap[a], heap[b], normal,
                                                        penetration, e, f)
                     ELSE ResolveSphereSphere(heap[a], heap[b], normal, penetration,
                                              e, f)} :
           /\ heap' = [heap EXCEPT ![a] = after[1], ![b] = after[2]]
           /\ contactLog' = <<Contact(a, b, normal, penetration, e, f, heap, after)>>
    /\ pokes' = pokes + 1
    /\ UNCHANGED <<worldVars, cons, engineVars, updateVars, solveLog, integratedDt,
                   stepsRun, setups,
                   integrations>>

(***************************************************************************)
(* Engine operations                                                       *)
(***************************************************************************)
\* Engine::Initialize
Initialize(newSettings) ==
    /\ pc = "idle"
    /\ setups < MaxSetups
    /\ setups' = setups + 1
    /\ settings' = newSettings
    /\ worldBodies' = <<>>
    /\ UNCHANGED <<heap, fixedDeltaTime, cons, worldConstraints, managedBodies,
                   managedConstraints, updateVars, logVars, stepsRun, pokes,
                   integrations>>

\* Engine::CreateRigidBody followed by the field assignments of the caller;
\* the scenes are populated before their first step
EngineCreate(body) ==
    /\ pc = "idle"
    /\ stepsRun = 0
    /\ Len(heap) < MaxBodies
    /\ heap' = Append(heap, body)
    /\ managedBodies' = Append(managedBodies, Len(heap) + 1)
    /\ worldBodies' = Append(worldBodies, Len(heap) + 1)
    /\ UNCHANGED <<fixedDeltaTime, cons, worldConstraints, settings, managedConstraints,
                   updateVars, logVars, stepsRun, pokes, setups,
                   integrations>>

\* Engine::CreateBox
CreateBox(position, size, mass) == EngineCreate(CreateBoxBody(position, size, mass))

\* Engine::CreateSphere; a scene gets one sphere, as the squared distances
\* between two spheres stepped by 1/60 s need more than 32 bits
CreateSphere(position, radius, mass) ==
    /\ \A i \in DOMAIN heap : heap[i].shape # "Sphere"
    /\ EngineCreate(CreateSphereBody(position, radius, mass))

\* Engine::CreatePlane
CreatePlane(normal, distance, mass) == EngineCreate(CreatePlaneBody(normal, distance, mass))

\* Engine::SetGravity
SetGravity(gravity) ==
    /\ pc = "idle"
    /\ setups < MaxSetups
    /\ setups' = setups + 1
    /\ settings' = [settings EXCEPT !.gravity = gravity]
    /\ UNCHANGED <<heap, worldVars, cons, managedBodies, managedConstraints, updateVars,
                   logVars, stepsRun, pokes,
                   integrations>>

\* Engine::SetTimeStep
SetTimeStep(timeStep) ==
    /\ pc = "idle"
    /\ setups < MaxSetups
    /\ setups' = setups + 1
    /\ settings' = [settings EXCEPT !.fixedTimeStep = timeStep]
    /\ UNCHANGED <<heap, worldVars, cons, managedBodies, managedConstraints, updateVars,
                   logVars, stepsRun, pokes,
                   integrations>>

\* Engine::CreateHingeConstraint
CreateHingeConstraint(pivot, axis, angularVelocity, isRotating) ==
    /\ pc = "idle"
    /\ setups < MaxSetups
    /\ setups' = setups + 1
    /\ Len(cons) < MaxConstraints
    /\ cons' = Append(cons, NewHinge(pivot, axis, angularVelocity, isRotating))
    /\ managedConstraints' = Append(managedConstraints, Len(cons) + 1)
    /\ worldConstraints' = Append(worldConstraints, Len(cons) + 1)
    /\ UNCHANGED <<heap, worldBodies, fixedDeltaTime, settings, managedBodies,
                   updateVars, logVars, stepsRun, pokes,
                   integrations>>

\* Engine::SetHingeConstraintRotation; constraintId counts from 0
SetHingeConstraintRotation(constraintId, angle) ==
    /\ pc = "idle"
    /\ pokes < MaxPokes
    /\ pokes' = pokes + 1
    /\ cons' = IF constraintId >= 0 /\ constraintId < Len(managedConstraints)
               THEN [cons EXCEPT ![managedConstraints[constraintId + 1]] =
                                      SetRotation(@, angle)]
               ELSE cons
    /\ UNCHANGED <<heap, worldVars, engineVars, updateVars, logVars,
                   stepsRun, setups, integrations>>

\* Engine::Update up to the loop: the clamp of deltaTime and the locals
UpdateBegin(deltaTime) ==
    /\ pc = "idle"
    /\ LET dt == RMin(deltaTime, settings.maxTimeStep)
       IN  /\ stepsRun + UpdateSubsteps(settings, dt, 0) <= MaxSteps
           /\ remainingTime' = dt
    /\ substeps' = 0
    /\ pc' = "update"
    /\ UNCHANGED <<heap, worldVars, cons, engineVars, logVars, stepsRun, pokes, setups,
                   integrations>>

\* one iteration of the loop of Engine::Update
UpdateSubstep ==
    /\ pc = "update"
    /\ UpdateContinues(settings, remainingTime, substeps)
    /\ LET stepTime == RMin(remainingTime, settings.fixedTimeStep)
       IN  remainingTime' = RSub(remainingTime, stepTime)
    /\ WorldStep
    /\ substeps' = substeps + 1
    /\ UNCHANGED <<worldVars, cons, engineVars, pc, pokes, setups,
                   integrations>>

\* the exit of the loop of Engine::Update and its return, where its locals
\* go out of scope
UpdateEnd ==
    /\ pc = "update"
    /\ ~UpdateContinues(settings, remainingTime, substeps)
    /\ pc' = "idle"
    /\ remainingTime' = Zero
    /\ substeps' = 0
    /\ UNCHANGED <<heap, worldVars, cons, engineVars, logVars, stepsRun, pokes, setups,
                   integrations>>

\* Engine::ResetScene: the managed bodies are deleted, the world's body list
\* cleared, the settings reset; the bodies of the host leave the model with
\* the world's list
ResetScene ==
    /\ pc = "idle"
    /\ heap # <<>>
    /\ heap' = <<>>
    /\ managedBodies' = <<>>
    /\ worldBodies' = <<>>
    /\ settings' = DefaultSettings
    /\ UNCHANGED <<fixedDeltaTime, cons, worldConstraints, managedConstraints,
                   updateVars, logVars, stepsRun, pokes, setups,
                   integrations>>

\* a PhysicsWorld driven by a host directly, as the test programs drive it
Next ==
    \/ \E dt \in TimeSteps : SetFixedDeltaTime(dt)
    \/ \E t \in HostBodies : HostAddBody(t[1], t[2], t[3])
    \/ \E t \in HostBoxes, shape \in BoxShapes : HostAddBox(t[1], t[2], t[3], shape)
    \/ \E i \in DOMAIN heap, m \in SetMassValues : DoSetMass(i, m)
    \/ \E i \in DOMAIN heap, f \in Forces : DoApplyForce(i, f)
    \/ \E i \in DOMAIN heap, t \in Torques : DoApplyTorque(i, t)
    \/ \E i \in DOMAIN heap : \E dt \in IntegrateTimes : DoIntegrate(i, dt)
    \/ HostStep
    \/ \E a, b \in DOMAIN heap, e \in Restitutions, f \in Frictions, legacy \in BOOLEAN :
           HostResolve(a, b, Vec(1, 0, 0), <<1, 2>>, e, f, legacy)

Spec == Init /\ [][Next]_vars

\* the PhysicsWorld of an Engine, driven through the Engine
EngineNext ==
    \/ \E s \in InitSettings : Initialize(s)
    \/ \E p \in BoxPositions, m \in BoxMasses : CreateBox(p, Vec(1, 1, 1), m)
    \/ \E m \in SphereMasses : CreateSphere(Vec(2, 0, 0), F(2), m)
    \/ CreatePlane(Vec(0, 1, 0), Zero, Zero)
    \/ \E i \in DOMAIN heap, m \in SetMassValues : DoSetMass(i, m)
    \/ \E g \in Gravities : SetGravity(g)
    \/ \E t \in EngineTimeSteps : SetTimeStep(t)
    \/ CreateHingeConstraint(ZeroVec, Vec(0, 1, 0), Zero, FALSE)
    \/ \E id \in ConstraintIds, angle \in HingeAngles : SetHingeConstraintRotation(id, angle)
    \/ \E dt \in UpdateTimes : UpdateBegin(dt)
    \/ UpdateSubstep
    \/ UpdateEnd
    \/ ResetScene

EngineSpec == Init /\ [][EngineNext]_vars

\* an iteration of the loop of Engine::Update, seen through its counter:
\* UpdateSubstep is the one action that advances substeps
UpdateIterates ==
    /\ pc = "update"
    /\ UpdateContinues(settings, remainingTime, substeps)
    /\ substeps' = substeps + 1

\* Engine::Update runs to completion once called: nothing suspends its loop
\* or its return
FairEngineSpec == EngineSpec /\ WF_substeps(UpdateIterates) /\ WF_vars(UpdateEnd)

(***************************************************************************)
(* The functions of the library called one at a time on two bodies          *)
(***************************************************************************)
\* RigidBody b; b.SetMass(m); b.shape = shape; b.halfExtents = (1, 1, 1);
\* b.position = p; b.velocity = v, as the fixtures set a body up
UnitBody(p, v, m, shape) ==
    [SetMass(NewRigidBody, m) EXCEPT !.shape = shape, !.halfExtents = Vec(1, 1, 1),
                                     !.position = p, !.velocity = v]

\* where the second body is, the first being at the origin: overlapping on
\* one axis less than on the others, equally on two, touching, apart
UnitOffsets == {Vec(x, y, 0) : x \in {-2, -1, 1, 2, 3}, y \in {0, 1}}
UnitMasses == {F(1), F(2), F(0)}
\* the velocity of the second body, the first being at rest: at rest,
\* approaching along x with and without a tangential part, and separating
UnitVelocities == {ZeroVec, Vec(-1, 0, 0), Vec(-1, 1, 0), Vec(1, 1, 0)}
\* the contact the resolvers are called with
UnitNormal == Vec(1, 0, 0)
UnitPenetration == <<1, 2>>
UnitResolvers ==
    {"ResolveSphereSphere", "ResolveAABBCollision", "ResolveOBBCollision",
     "ResolveOBBAABBCollision", "Collision_ResolveSphereSphere",
     "AABB_ResolveAABBCollision", "OBB_ResolveOBBAABBCollision"}

UnitInit ==
    /\ heap \in {<<UnitBody(ZeroVec, va, ma, sa), UnitBody(p, vb, mb, sb)>> :
                     <<va, ma, sa, p, vb, mb, sb>> \in
                         {ZeroVec} \X UnitMasses \X BoxShapes \X UnitOffsets
                             \X UnitVelocities \X UnitMasses \X BoxShapes}
    /\ worldBodies = <<>>
    /\ fixedDeltaTime = <<1, 60>>
    /\ cons = <<>>
    /\ worldConstraints = <<>>
    /\ settings = DefaultSettings
    /\ managedBodies = <<>>
    /\ managedConstraints = <<>>
    /\ pc = "idle"
    /\ remainingTime = Zero
    /\ substeps = 0
    /\ contactLog = <<>>
    /\ solveLog = <<>>
    /\ integratedDt = Zero
    /\ stepsRun = 0
    /\ pokes = 0
    /\ setups = 0
    /\ integrations = 0

\* the narrow-phase test of the two shapes, on the boxes PhysicsWorld::Step
\* builds from the bodies; legacy chooses the first version of the AABB test
NarrowPhase(a, b, legacy) ==
    IF a.shape = "AABB" /\ b.shape = "AABB"
    THEN IF legacy
         THEN AABB_ComputeAABBCollision(ComputeAABB(a.position, a.halfExtents),
                                        ComputeAABB(b.position, b.halfExtents))
         ELSE ComputeAABBCollision(ComputeAABB(a.position, a.halfExtents),
                                   ComputeAABB(b.position, b.halfExtents))
    ELSE IF a.shape = "OBB" /\ b.shape = "OBB"
    THEN ComputeOBBCollision(BodyOBB(a), BodyOBB(b))
    ELSE IF a.shape = "OBB"
    THEN ComputeOBBAABBCollision(BodyOBB(a), ComputeAABB(b.position, b.halfExtents))
    ELSE ComputeOBBAABBCollision(BodyOBB(b), ComputeAABB(a.position, a.halfExtents))

\* what a narrow-phase test returned for the bodies a and b when it
\* returned true
Reported(a, b, r, legacy) ==
    [a |-> a, b |-> b, normal |-> r[3], penetration |-> r[2], legacy |-> legacy,
     test |-> "narrow"]

\* the host calls the narrow-phase test of the two bodies
UnitCollide(legacy) ==
    /\ pokes < MaxPokes
    /\ legacy => heap[1].shape = "AABB" /\ heap[2].shape = "AABB"
    /\ \E r \in {NarrowPhase(heap[1], heap[2], legacy)} :
           contactLog' = IF r[1] THEN <<Reported(heap[1], heap[2], r, legacy)>> ELSE <<>>
    /\ pokes' = pokes + 1
    /\ UNCHANGED <<heap, worldVars, cons, engineVars, updateVars, solveLog, integratedDt,
                   stepsRun, setups, integrations>>

\* the resolver of that name called on (a, b)
CallResolver(resolver, a, b, normal, penetration, restitution, frictionCoeff) ==
    CASE resolver = "ResolveSphereSphere" ->
             ResolveSphereSphere(a, b, normal, penetration, restitution, frictionCoeff)
      [] resolver = "ResolveAABBCollision" ->
             ResolveAABBCollision(a, b, normal, penetration, restitution, frictionCoeff)
      [] resolver = "ResolveOBBCollision" ->
             ResolveOBBCollision(a, b, normal, penetration, restitution, frictionCoeff)
      [] resolver = "ResolveOBBAABBCollision" ->
             ResolveOBBAABBCollision(a, b, normal, penetration, restitution, frictionCoeff)
      [] resolver = "Collision_ResolveSphereSphere" ->
             Collision_ResolveSphereSphere(a, b, normal, penetration, restitution,
                                           frictionCoeff)
      [] resolver = "AABB_ResolveAABBCollision" ->
             AABB_ResolveAABBCollision(a, b, normal, penetration, restitution,
                                       frictionCoeff)
      [] resolver = "OBB_ResolveOBBAABBCollision" ->
             OBB_ResolveOBBAABBCollision(a, b, normal, penetration, restitution,
                                         frictionCoeff)

\* one call of a resolver, as the log keeps it
Resolution(resolver, a, b, normal, penetration, restitution, frictionCoeff, after) ==
    [resolver |-> resolver, normal |-> normal, penetration |-> penetration,
     restitution |-> restitution, friction |-> frictionCoeff,
     preA |-> a, preB |-> b, postA |-> after[1], postB |-> after[2], test |-> "resolve"]

\* the host calls a resolver on the two bodies
UnitResolve(resolver, e, f) ==
    /\ pokes < MaxPokes
    /\ \E after \in {CallResolver(resolver, heap[1], heap[2], UnitNormal,
                                   UnitPenetration, e, f)} :
           /\ heap' = <<after[1], after[2]>>
           /\ contactLog' = <<Resolution(resolver, heap[1], heap[2], UnitNormal,
                                         UnitPenetration, e, f, after)>>
    /\ pokes' = pokes + 1
    /\ UNCHANGED <<worldVars, cons, engineVars, updateVars, solveLog, integratedDt,
                   stepsRun, setups, integrations>>

\* the constraints a test builds between the two bodies: pivots at the
\* centres, the hinge with crossed axes, rods of length 1 and 3
UnitConstraints ==
    {NewConstraint("PointToPoint", 1, 2, ZeroVec, ZeroVec, ZeroVec, ZeroVec, Zero),
     NewConstraint("Distance", 1, 2, ZeroVec, ZeroVec, ZeroVec, ZeroVec, F(1)),
     NewConstraint("Distance", 1, 2, ZeroVec, ZeroVec, ZeroVec, ZeroVec, F(3)),
     NewConstraint("Hinge", 1, 2, ZeroVec, ZeroVec, Vec(1, 0, 0), Vec(0, 1, 0), Zero)}
UnitSolveTimes == {<<1, 60>>}

\* one PreSolve and Solve of a constraint, as the log keeps it
Solved(c, a, b, dt, r) ==
    [constraint |-> c, dt |-> dt, preA |-> a, preB |-> b, postA |-> r[1], postB |-> r[2],
     divisors |-> r[3]]

\* the host builds the constraint c on the two bodies and calls
\* c.PreSolve(dt); c.Solve(dt)
UnitSolve(c, dt) ==
    /\ pokes < MaxPokes
    /\ \E pre \in {PreSolve(c, heap[c.bodyA], heap[c.bodyB])} :
       \E r \in {Solve(pre, heap[c.bodyA], heap[c.bodyB], dt)} :
           /\ cons' = Append(cons, pre)
           /\ heap' = [heap EXCEPT ![c.bodyA] = r[1], ![c.bodyB] = r[2]]
           /\ solveLog' = <<Solved(pre, heap[c.bodyA], heap[c.bodyB], dt, r)>>
    /\ pokes' = pokes + 1
    /\ UNCHANGED <<worldVars, engineVars, updateVars, contactLog, integratedDt,
                   stepsRun, setups, integrations>>

UnitNext ==
    \/ \E legacy \in BOOLEAN : UnitCollide(legacy)
    \/ \E resolver \in UnitResolvers, e \in Restitutions, f \in Frictions :
           UnitResolve(resolver, e, f)
    \/ \E c \in UnitConstraints, dt \in UnitSolveTimes : UnitSolve(c, dt)

UnitSpec == UnitInit /\ [][UnitNext]_vars

(***************************************************************************)
(* Vocabulary of the claims                                                *)
(***************************************************************************)
\* a body the engine treats as static
IsStatic(b) == REq(b.invMass, Zero)

\* the half-widths of the axis-aligned bounds of a body
BoundsExtent(b) == IF b.shape = "Sphere" THEN <<b.radius, b.radius, b.radius>> ELSE b.halfExtents

\* the axis-aligned bounds of a and b intersect
BoundsIntersect(a, b) ==
    \A k \in 1..3 :
        /\ RLe(RSub(a.position[k], BoundsExtent(a)[k]), RAdd(b.position[k], BoundsExtent(b)[k]))
        /\ RLe(RSub(b.position[k], BoundsExtent(b)[k]), RAdd(a.position[k], BoundsExtent(a)[k]))

\* the pair {a, b} is among the candidate pairs
Paired(pairs, a, b) == \E k \in DOMAIN pairs : pairs[k] = <<a, b>> \/ pairs[k] = <<b, a>>

\* (b.velocity - a.velocity) . normal
NormalVelocity(a, b, normal) == Dot(VSub(b.velocity, a.velocity), normal)

\* the callbacks a step owes the constraints cs, in order
SolveOrder(cs) ==
    Flatten([k \in 1..Len(cs) |->
        <<<<"PreSolve", cs[k]>>, <<"Solve", cs[k]>>, <<"PostSolve", cs[k]>>>>])

\* body i takes part in a contact of the log
InContact(log, i) == \E k \in DOMAIN log : log[k].a = i \/ log[k].b = i

\* the two spheres of testSphereCollision, as HostAddBody leaves them
HeadOnSpheres ==
    <<[SetMass(NewRigidBody, F(1)) EXCEPT !.position = Vec(-2, 0, 0), !.velocity = Vec(5, 0, 0)],
      [SetMass(NewRigidBody, F(1)) EXCEPT !.position = Vec(2, 0, 0), !.velocity = Vec(-5, 0, 0)]>>

(***************************************************************************)
(* Claims                                                                  *)
(***************************************************************************)
\* C1: a body with invMass == 0 keeps its position and its velocity through
\* every ApplyForce, every ApplyTorque and every PhysicsWorld::Step
C1_StaticBodiesStay ==
    [][\A i \in DOMAIN heap :
          (/\ i \in DOMAIN heap'
           /\ IsStatic(heap[i])
           /\ \/ stepsRun' = stepsRun + 1
              \/ heap'[i].forceAccum # heap[i].forceAccum
              \/ heap'[i].torqueAccum # heap[i].torqueAccum)
          => /\ heap'[i].position = heap[i].position
             /\ heap'[i].velocity = heap[i].velocity]_vars

\* C2: the grid built from the bodies of the world lists every pair of
\* bodies whose axis-aligned bounds intersect, in whatever order the map
\* iterates its cells
C2_BroadPhaseMissesNoPair ==
    \A ub \in UBCells(heap) :
    \A occupiedCells \in Orders(DOMAIN Update(heap, worldBodies, StepCellSize, ub)) :
    \A j, k \in DOMAIN worldBodies :
        (j < k /\ BoundsIntersect(heap[worldBodies[j]], heap[worldBodies[k]]))
        => Paired(GetPotentialPairs(Update(heap, worldBodies, StepCellSize, ub),
                                    occupiedCells),
                  worldBodies[j], worldBodies[k])

\* C3: every PhysicsWorld::Step runs PreSolve, Solve and PostSolve once on
\* each constraint of the world, in the order the constraints were added
C3_StepSolvesConstraints ==
    [][stepsRun' = stepsRun + 1 => solveLog' = SolveOrder(worldConstraints)]_vars

\* C4: Engine::Update never runs more than maxSubSteps steps and always
\* returns, whatever deltaTime and fixedTimeStep are
C4_UpdateTerminates ==
    /\ [](pc = "update" => substeps <= settings.maxSubSteps)
    /\ ((pc = "update") ~> (pc = "idle"))

\* C4 witness: the loop of Update has stopped at the cap with time left and
\* a fixedTimeStep that is not positive
C4_Witness ==
    /\ pc = "update"
    /\ substeps = settings.maxSubSteps
    /\ substeps > 0
    /\ RGt(remainingTime, Zero)
    /\ RLe(settings.fixedTimeStep, Zero)

\* C5: one step of 1 s on the two head-on spheres leaves them uncrossed,
\* with opposite velocities along x, neither faster than 5 along x
C5_HeadOnSpheresBounce ==
    [][(/\ heap = HeadOnSpheres
        /\ worldBodies = <<1, 2>>
        /\ fixedDeltaTime = F(1)
        /\ stepsRun' = stepsRun + 1)
       => /\ RLe(heap'[1].position[1], heap'[2].position[1])
          /\ RAdd(heap'[1].velocity[1], heap'[2].velocity[1]) = Zero
          /\ RLe(RAbs(heap'[1].velocity[1]), F(5))
          /\ RLe(RAbs(heap'[2].velocity[1]), F(5))]_vars

\* C6: a resolver that was handed bodies approaching along the normal
\* returns them with a relative normal velocity that is not negative
C6_ResolvedContactsSeparate ==
    \A k \in DOMAIN contactLog :
        RLt(NormalVelocity(contactLog[k].preA, contactLog[k].preB, contactLog[k].normal), Zero)
        => RGe(NormalVelocity(contactLog[k].postA, contactLog[k].postB,
                              contactLog[k].normal), Zero)

\* C7: after every PhysicsWorld::Step the force and torque accumulators of
\* every body of the world, static or dynamic, are zero
C7_StepClearsAccumulators ==
    [][stepsRun' = stepsRun + 1
       => \A k \in DOMAIN worldBodies :
              /\ heap'[worldBodies[k]].forceAccum = ZeroVec
              /\ heap'[worldBodies[k]].torqueAccum = ZeroVec]_vars

\* C8 as stated: every body has invMass == 0 exactly when mass == 0
C8_StaticIffMassZero ==
    \A i \in DOMAIN heap : REq(heap[i].invMass, Zero) <=> REq(heap[i].mass, Zero)

\* C8 amended: every body has invMass == 0 exactly when mass <= 0, and
\* invMass == 1/mass otherwise
C8_StaticIffMassNotPositive ==
    \A i \in DOMAIN heap :
        /\ REq(heap[i].invMass, Zero) <=> RLe(heap[i].mass, Zero)
        /\ RGt(heap[i].mass, Zero) => heap[i].invMass = RDiv(One, heap[i].mass)

\* C8 witness: a body created with a negative mass next to one that
\* SetMass gave a positive mass
C8_Witness ==
    /\ pokes = 1
    /\ \E i, j \in DOMAIN heap :
           /\ heap[i].mass = F(-1) /\ heap[i].invMass = Zero
           /\ heap[j].mass = F(2) /\ heap[j].invMass = <<1, 2>>

\* C9: a step gives every dynamic body that was at rest, free of forces and
\* out of contact the velocity gravity * fixedDeltaTime, gravity being the
\* gravity of the engine's settings
C9_StepUsesConfiguredGravity ==
    [][stepsRun' = stepsRun + 1
       => \A k \in DOMAIN worldBodies :
              (/\ ~IsStatic(heap[worldBodies[k]])
               /\ heap[worldBodies[k]].velocity = ZeroVec
               /\ heap[worldBodies[k]].forceAccum = ZeroVec
               /\ ~InContact(contactLog', worldBodies[k]))
              => heap'[worldBodies[k]].velocity = VScale(settings.gravity, fixedDeltaTime)]_vars

\* C10: every step that Engine::Update runs integrates the bodies over the
\* fixedTimeStep of the engine's settings
C10_SubstepUsesFixedTimeStep ==
    [][(pc = "update" /\ stepsRun' = stepsRun + 1)
       => integratedDt' = settings.fixedTimeStep]_vars

\* C11: Integrate(dt) on a dynamic body moves it by velocity * dt +
\* 1/2 * (F * invMass) * dt^2 with the velocity it had before the call, and
\* adds (F * invMass) * dt to its velocity and (invInertiaTensor * torque) *
\* dt to its angular velocity
C11_IntegrateFormula ==
    [][\A i \in DOMAIN heap : \A dt \in IntegrateTimes :
          (DoIntegrate(i, dt) /\ ~IsStatic(heap[i]))
          => /\ heap'[i].position =
                    VAdd(VAdd(heap[i].position, VScale(heap[i].velocity, dt)),
                         VScale(VScale(heap[i].forceAccum, heap[i].invMass),
                                RMul(<<1, 2>>, RMul(dt, dt))))
             /\ heap'[i].velocity =
                    VAdd(heap[i].velocity,
                         VScale(VScale(heap[i].forceAccum, heap[i].invMass), dt))
             /\ heap'[i].angularVelocity =
                    VAdd(heap[i].angularVelocity,
                         VScale(VScale(heap[i].torqueAccum, heap[i].invInertiaTensor), dt))]_vars

\* C11 witness: a unit mass that was at rest at (2,0,0) with force (10,0,0)
\* has been integrated over 1 s: 5 further along x, at velocity 10
C11_Witness ==
    /\ integrations = 1
    /\ stepsRun = 0
    /\ \E i \in DOMAIN heap :
           /\ heap[i].mass = F(1)
           /\ heap[i].position = Vec(7, 0, 0)
           /\ heap[i].velocity = Vec(10, 0, 0)
           /\ heap[i].forceAccum = ZeroVec

\* no unordered pair of distinct bodies is listed twice in pairs
NoPairTwice(pairs) ==
    \A j, k \in DOMAIN pairs :
        (j # k /\ pairs[j][1] # pairs[j][2])
        => /\ pairs[k] # pairs[j]
           /\ pairs[k] # <<pairs[j][2], pairs[j][1]>>

\* C12: GetPotentialPairs, in its occupied-cell version and in its 27-cell
\* stencil version, lists no unordered pair of distinct bodies twice,
\* whatever the order in which the map iterates its cells
C12_PairsEmittedOnce ==
    \A ub \in UBCells(heap) :
    \A occupiedCells \in Orders(DOMAIN Update(heap, worldBodies, StepCellSize, ub)) :
        /\ NoPairTwice(GetPotentialPairs(Update(heap, worldBodies, StepCellSize, ub),
                                         occupiedCells))
        /\ NoPairTwice(GetPotentialPairsStencil(Update(heap, worldBodies, StepCellSize, ub),
                                                occupiedCells))

\* floor(pos / cellSize) on each axis, for a finite position
CellOf(pos, cellSize) ==
    <<FloorI(RDiv(pos[1], cellSize)), FloorI(RDiv(pos[2], cellSize)),
      FloorI(RDiv(pos[3], cellSize))>>

\* the largest distance of p and q along an axis
AxisDistance(p, q) ==
    RMax(RAbs(RSub(p[1], q[1])), RMax(RAbs(RSub(p[2], q[2])), RAbs(RSub(p[3], q[3]))))

\* bodies a and b, at finite positions, are paired in pairs exactly when
\* their cells are neighbours or equal, so always when they are within
\* cellSize on every axis and never when they are more than 2 * cellSize
\* apart on one
PairedByCells(pairs, a, b, cellSize) ==
    /\ Paired(pairs, a.id, b.id)
           <=> \A k \in 1..3 : AbsI(CellOf(a.position, cellSize)[k]
                                    - CellOf(b.position, cellSize)[k]) <= 1
    /\ RLe(AxisDistance(a.position, b.position), cellSize) => Paired(pairs, a.id, b.id)
    /\ RGt(AxisDistance(a.position, b.position), RMul(F(2), cellSize))
           => ~Paired(pairs, a.id, b.id)

\* body i of the heap with its address
Identified(i) == [id |-> i, position |-> heap[i].position]

PointsFromAToB(c) ==
    RGe(Dot(VSub(c.preB.position, c.preA.position), c.normal), Zero)

\* C14: every contact that PhysicsWorld::Step hands to a resolver has its
\* normal pointing from the first body a of the pair to the second body b:
\* (b.position - a.position) . normal >= 0, whatever the two shapes
C14_NormalPointsFromAToB ==
    stepsRun > 0 => \A k \in DOMAIN contactLog : PointsFromAToB(contactLog[k])

\* the resolver call c was made on two static bodies
BothStatic(c) == REq(RAdd(c.preA.invMass, c.preB.invMass), Zero)

\* C15: a resolver called on a contact between two static bodies
\* (a.invMass + b.invMass = 0) changes neither body's position nor its
\* velocity
C15_StaticPairUntouched ==
    \A k \in DOMAIN contactLog :
        BothStatic(contactLog[k]) =>
            /\ contactLog[k].postA.position = contactLog[k].preA.position
            /\ contactLog[k].postA.velocity = contactLog[k].preA.velocity
            /\ contactLog[k].postB.position = contactLog[k].preB.position
            /\ contactLog[k].postB.velocity = contactLog[k].preB.velocity

\* C16: after Engine::ResetScene the engine owns no bodies and no
\* constraints, and the world's body list and constraint list are empty
C16_ResetSceneEmptiesAll ==
    [][ResetScene =>
           /\ managedBodies' = <<>>
           /\ managedConstraints' = <<>>
           /\ worldBodies' = <<>>
           /\ worldConstraints' = <<>>]_vars

\* Engine::Update has been entered with a deltaTime that is not positive and
\* has not yet tested its loop condition: std::min with the positive
\* maxTimeStep leaves such a deltaTime as it is
UpdateOfNoTime == pc = "update" /\ substeps = 0 /\ RLe(remainingTime, Zero)

\* C17: Engine::Update(dt) with dt <= 0 runs no world step and leaves the
\* state of every body unchanged: entering it changes no body, and from
\* there it can only return, with the bodies and the step count as they were
C17_UpdateOfNoTimeDoesNothing ==
    [][/\ (\E dt \in UpdateTimes : RLe(dt, Zero) /\ UpdateBegin(dt)) =>
              UpdateOfNoTime' /\ heap' = heap /\ stepsRun' = stepsRun
       /\ UpdateOfNoTime =>
              pc' = "idle" /\ heap' = heap /\ stepsRun' = stepsRun]_vars

\* Update(-1) or Update(0) is under way in a world with a dynamic body
C17_Witness ==
    /\ UpdateOfNoTime
    /\ \E i \in Range(worldBodies) : ~IsStatic(heap[i])

\* C18: Engine::SetTimeStep(t) with t <= 0 is rejected or clamped: after the
\* call settings.fixedTimeStep still holds its previous positive value
C18_SetTimeStepKeepsPositive ==
    [][\A t \in EngineTimeSteps :
           (RLe(t, Zero) /\ RGt(settings.fixedTimeStep, Zero) /\ SetTimeStep(t)) =>
               settings'.fixedTimeStep = settings.fixedTimeStep]_vars

\* the constraint id is a handle of one of the constraints created so far
ValidHandle(id) == id >= 0 /\ id < Len(cons)

\* the constraints are as they were but for the targetAngle of handle id
OnlyTargetAngle(id, angle) ==
    /\ DOMAIN cons' = DOMAIN cons
    /\ \A c \in DOMAIN cons :
           cons'[c] = IF c = managedConstraints[id + 1]
                      THEN [cons[c] EXCEPT !.targetAngle = angle]
                      ELSE cons[c]

\* C19: Engine::SetHingeConstraintRotation(id, angle) with id negative or
\* not less than the number of constraints created changes no constraint
\* and no other engine state; with a valid id it changes only that
\* constraint's targetAngle
C19_SetRotationByHandle ==
    [][\A id \in ConstraintIds, angle \in HingeAngles :
           SetHingeConstraintRotation(id, angle) =>
               /\ UNCHANGED <<heap, worldVars, engineVars>>
               /\ IF ValidHandle(id) THEN OnlyTargetAngle(id, angle) ELSE cons' = cons]_vars

\* a call with a valid handle has set the target angle of a hinge
C19_Witness ==
    /\ pokes = 1
    /\ \E c \in DOMAIN cons : cons[c].targetAngle = F(1) /\ cons[c].currentAngle = Zero

\* the sum of radii that SphereVsSphere compares the distance of two such
\* bodies with
CollisionRadiusSum(a, b) == RAdd(a.radius, b.radius)

\* C20: Engine::CreateSphere(position, radius, mass) creates a Sphere body
\* whose collision radius, the value the sphere test uses and GetBody
\* reports, is the radius argument
C20_CreateSphereSetsRadius ==
    [][\A m \in SphereMasses :
           CreateSphere(Vec(2, 0, 0), F(2), m) =>
               /\ heap'[Len(heap')].shape = "Sphere"
               /\ GetBody(heap'[Len(heap')]).radius = F(2)
               /\ CollisionRadiusSum(heap'[Len(heap')], heap'[Len(heap')]) = F(4)]_vars

\* the overlap of the boxes of the bodies a and b on axis k
AxisOverlap(a, b, k) ==
    RSub(RAdd(a.halfExtents[k], b.halfExtents[k]),
         RAbs(RSub(b.position[k], a.position[k])))

\* the boxes of a and b overlap on every axis
BoxesOverlap(a, b) == \A k \in 1..3 : RGt(AxisOverlap(a, b, k), Zero)

\* the contact c is along an axis of least overlap: its penetration is the
\* least of the three overlaps and its normal a unit vector on an axis that
\* has that overlap
LeastOverlapContact(c) ==
    \E k \in 1..3 :
        /\ \A n \in 1..3 : RLe(AxisOverlap(c.a, c.b, k), AxisOverlap(c.a, c.b, n))
        /\ c.penetration = AxisOverlap(c.a, c.b, k)
        /\ c.normal \in {UnitAxis(k), VScale(UnitAxis(k), F(-1))}

\* C21: when two AABBs overlap, ComputeAABBCollision returns the smallest of
\* the three per-axis overlaps as penetration, with a unit normal on that
\* axis, also when two axes tie for the smallest overlap
C21_LeastOverlapAxis ==
    [][\A legacy \in BOOLEAN :
           (/\ UnitCollide(legacy)
            /\ heap[1].shape = "AABB" /\ heap[2].shape = "AABB"
            /\ BoxesOverlap(heap[1], heap[2])) =>
               /\ Len(contactLog') = 1
               /\ LeastOverlapContact(contactLog'[1])]_vars

\* C22: a narrow-phase test reports a contact only with penetration > 0:
\* two AABBs or two OBBs that exactly touch (zero overlap on some axis)
\* are reported as not colliding
C22_ContactsPenetrate ==
    [][\A legacy \in BOOLEAN :
           UnitCollide(legacy) =>
               \A k \in DOMAIN contactLog' : RGt(contactLog'[k].penetration, Zero)]_vars

\* the part of the relative velocity of b against a that is tangential to
\* the normal
TangentialVelocity(a, b, normal) ==
    VSub(VSub(b.velocity, a.velocity),
         VScale(normal, NormalVelocity(a, b, normal)))

\* a.invMass + b.invMass of the resolver call c
InvMassSum(c) == RAdd(c.preA.invMass, c.preB.invMass)

\* the normal impulse j the resolver call c applied, read off the change of
\* the relative normal velocity
NormalImpulse(c) ==
    RDiv(RSub(NormalVelocity(c.postA, c.postB, c.normal),
              NormalVelocity(c.preA, c.preB, c.normal)), InvMassSum(c))

\* the magnitude the friction impulse of the call c is to have
FrictionMagnitude(c) ==
    RMin(RDiv(Length(TangentialVelocity(c.preA, c.preB, c.normal)), InvMassSum(c)),
         RMul(c.friction, RAbs(NormalImpulse(c))))

\* the tangential relative velocity after a friction impulse of that
\* magnitude opposing it
OpposedTangentialVelocity(c) ==
    VSub(TangentialVelocity(c.preA, c.preB, c.normal),
         VScale(VDivS(TangentialVelocity(c.preA, c.preB, c.normal),
                      Length(TangentialVelocity(c.preA, c.preB, c.normal))),
                RMul(FrictionMagnitude(c), InvMassSum(c))))

\* the resolver call c found the bodies approaching, with a tangential
\* relative velocity
ApproachingWithSlip(c) ==
    /\ RGt(InvMassSum(c), Zero)
    /\ RLt(NormalVelocity(c.preA, c.preB, c.normal), Zero)
    /\ RGt(Length(TangentialVelocity(c.preA, c.preB, c.normal)), <<1, 1000000>>)

\* C23: resolving a contact between approaching bodies with tangential
\* relative velocity t applies a friction impulse opposing t of magnitude
\* min(|t| / invMassSum, frictionCoeff * |j|), j the normal impulse: the
\* tangential relative speed does not grow, and is zero when the clamp is
\* not reached
C23_FrictionOpposesSlip ==
    [][\A resolver \in UnitResolvers, e \in Restitutions, f \in Frictions :
           (UnitResolve(resolver, e, f) /\ ApproachingWithSlip(contactLog'[1])) =>
               TangentialVelocity(contactLog'[1].postA, contactLog'[1].postB,
                                  contactLog'[1].normal)
                   = OpposedTangentialVelocity(contactLog'[1])]_vars

\* the rate at which the anchors of the solved constraint s separate, times
\* their separation: negative when they approach each other
AnchorSeparationRate(s) ==
    Dot(VSub(s.postB.velocity, s.postA.velocity), VSub(s.constraint.rB, s.constraint.rA))

\* the separation of the anchors of the solved constraint s
AnchorSeparation(s) == Length(VSub(s.constraint.rB, s.constraint.rA))

\* the solved constraint s joined two dynamic bodies at rest
DynamicAtRest(s) ==
    /\ ~IsStatic(s.preA) /\ ~IsStatic(s.preB)
    /\ s.preA.velocity = ZeroVec /\ s.preB.velocity = ZeroVec

\* C24: for two dynamic bodies at rest, PreSolve followed by Solve of a
\* positional row gives the anchors a relative velocity that reduces the
\* error: a point-to-point constraint with separated anchors and a distance
\* constraint stretched beyond its length pull the anchors together, a
\* distance constraint shorter than its length pushes them apart
C24_RowReducesError ==
    [][\A c \in UnitConstraints, dt \in UnitSolveTimes :
           (UnitSolve(c, dt) /\ DynamicAtRest(solveLog'[1])) =>
               /\ (c.kind = "PointToPoint" /\ RGt(AnchorSeparation(solveLog'[1]), Zero))
                      => RLt(AnchorSeparationRate(solveLog'[1]), Zero)
               /\ (c.kind = "Distance" /\ RGt(AnchorSeparation(solveLog'[1]), c.distance))
                      => RLt(AnchorSeparationRate(solveLog'[1]), Zero)
               /\ (c.kind = "Distance" /\ RLt(AnchorSeparation(solveLog'[1]), c.distance))
                      => RGt(AnchorSeparationRate(solveLog'[1]), Zero)]_vars


\* the result of PhysicsWorld::Step does not depend on the order in which
\* the grid lists its occupied cells
OrderIndependent(h, bodies, dt) ==
    \A ub \in UBCells(StepIntegrated(h, bodies, dt)) :
        \A o1, o2 \in Orders(DOMAIN StepGrid(h, bodies, dt, ub)) :
            Step(h, bodies, dt, o1, ub) = Step(h, bodies, dt, o2, ub)

\* C25: from the same world state, every order in which the grid's occupied
\* cells are visited gives Step the same candidate pairs, with the same
\* (a, b) orientation, the same resolver calls and the same bodies afterwards
C25_StepOrderIndependent ==
    (pc = "idle" /\ stepsRun < MaxSteps) =>
        OrderIndependent(heap, worldBodies, fixedDeltaTime)

\* constraint k of the heap of constraints is a single-body hinge: its body
\* pointers are null
SingleBodyHinge(k) ==
    cons[k].kind = "Hinge" /\ cons[k].bodyA = 0 /\ cons[k].bodyB = 0

\* C26: no step of the world runs PreSolve or Solve of a hinge created by
\* Engine::CreateHingeConstraint, so its null body pointers are never
\* dereferenced
C26_SingleBodyHingeNeverSolved ==
    \A k \in DOMAIN solveLog :
        ~(solveLog[k][1] \in {"PreSolve", "Solve"} /\ SingleBodyHinge(solveLog[k][2]))

\* an Update has stepped a world whose constraint list holds a single-body
\* hinge
C26_Witness ==
    /\ pc = "update"
    /\ substeps > 0
    /\ stepsRun > 0
    /\ \E k \in DOMAIN worldConstraints : SingleBodyHinge(worldConstraints[k])
    /\ solveLog = <<>>

\* the bodies of the resolver call c were separating along the normal when
\* the resolver was called
Separating(c) ==
    RGt(Dot(VSub(c.preB.velocity, c.preA.velocity), c.normal), Zero)

\* C27: a resolver called with the bodies separating along the normal,
\* (b.velocity - a.velocity) . normal > 0, returns with both velocities
\* unchanged
C27_SeparatingKeepsVelocities ==
    \A k \in DOMAIN contactLog :
        (contactLog[k].test = "resolve" /\ Separating(contactLog[k])) =>
            /\ contactLog[k].postA.velocity = contactLog[k].preA.velocity
            /\ contactLog[k].postB.velocity = contactLog[k].preB.velocity

\* a resolver of Collision.cpp has returned from a call with two dynamic
\* bodies that were separating
C27_Witness ==
    \E k \in DOMAIN contactLog :
        /\ contactLog[k].test = "resolve"
        /\ contactLog[k].resolver = "ResolveSphereSphere"
        /\ Separating(contactLog[k])
        /\ RGt(contactLog[k].preA.invMass, Zero)
        /\ RGt(contactLog[k].preB.invMass, Zero)
        /\ contactLog[k].postB.velocity = contactLog[k].preB.velocity

\* both bodies of the solved row s are static
BothStaticRow(s) == s.preA.invMass = Zero /\ s.preB.invMass = Zero

\* C28: when both bodies of a constraint are static, Solve divides by no
\* zero sum of inverse masses or inverse inertias and leaves velocity and
\* angularVelocity of both bodies unchanged
C28_StaticRowSkipped ==
    \A k \in DOMAIN solveLog :
        BothStaticRow(solveLog[k]) =>
            /\ \A d \in DOMAIN solveLog[k].divisors : solveLog[k].divisors[d] # Zero
            /\ solveLog[k].postA.velocity = solveLog[k].preA.velocity
            /\ solveLog[k].postB.velocity = solveLog[k].preB.velocity
            /\ solveLog[k].postA.angularVelocity = solveLog[k].preA.angularVelocity
            /\ solveLog[k].postB.angularVelocity = solveLog[k].preB.angularVelocity

\* C29: whatever operations the Engine has run, its managed body list and
\* the body list of its world hold the same bodies in the same order
C29_ManagedBodiesAreWorldBodies == managedBodies = worldBodies

\* mass_a * velocity_a + mass_b * velocity_b
Momentum(a, b) == VAdd(VScale(a.velocity, a.mass), VScale(b.velocity, b.mass))

\* the resolver call c was made on two dynamic bodies
BothDynamic(c) == RGt(c.preA.invMass, Zero) /\ RGt(c.preB.invMass, Zero)

\* C30: every resolver variant, called on two dynamic bodies with any
\* restitution and friction coefficient, returns with the linear momentum
\* mass_a * velocity_a + mass_b * velocity_b it was called with
C30_MomentumConserved ==
    \A k \in DOMAIN contactLog :
        (contactLog[k].test = "resolve" /\ BothDynamic(contactLog[k])) =>
            Momentum(contactLog[k].postA, contactLog[k].postB)
                = Momentum(contactLog[k].preA, contactLog[k].preB)

\* a resolver has changed the velocities of two dynamic bodies of different
\* mass
C30_Witness ==
    \E k \in DOMAIN contactLog :
        /\ contactLog[k].test = "resolve"
        /\ BothDynamic(contactLog[k])
        /\ contactLog[k].preA.mass # contactLog[k].preB.mass
        /\ contactLog[k].postA.velocity # contactLog[k].preA.velocity
        /\ contactLog[k].postB.velocity # contactLog[k].preB.velocity
        /\ contactLog[k].friction # Zero
=============================================================================
